---- MODULE Spec2Model ----
(***************************************************************************)
(* Permission-gated tool execution and error recovery:                     *)
(*   mcp_server/permissions/access_control.py  (PermissionManager)         *)
(*   mcp_server/permissions/validators.py      (InputValidator)            *)
(*   mcp_server/utils/error_handlers.py        (ToolError, envelopes)      *)
(*   mcp_server/tools/file_tools.py            (FileTools)                 *)
(*   mcp_server/tools/shell_tools.py           (ShellTools job table)      *)
(*   agent/error_recovery.py                   (ErrorRecoverySystem)       *)
(*                                                                         *)
(* Text is modelled as a sequence of one-character strings, a path as a    *)
(* sequence of components, each component a text.  Python's None is the    *)
(* string None.                                                            *)
(***************************************************************************)
EXTENDS Integers, Sequences, FiniteSets, TLC

VARIABLES
    mode,               \* PermissionManager.mode
    session_approvals,  \* PermissionManager.session_approvals
    files,              \* the filesystem: resolved path -> content or NoFile
    last,               \* the last step taken: the call and the response it returned
    recovery_enabled,   \* ErrorRecoverySystem.enabled
    strategies,         \* ErrorRecoverySystem.strategies: error kind -> its configuration
    retry_counts,       \* ErrorRecoverySystem.retry_counts (a dict: partial function)
    issued,             \* history: non-fail directives per id since its last reset
    background_jobs,    \* ShellTools.background_jobs: job id -> process returncode
    used_ids,           \* history: job ids handed out so far
    read_once,          \* history: job ids whose completed status has been returned
    calls               \* the tool calls suspended at an await: call id -> position and locals

vars == <<mode, session_approvals, files, last, recovery_enabled, strategies,
          retry_counts, issued, background_jobs, used_ids, read_once, calls>>

None == "<None>"
\* An optional argument: Nothing when it is not given (None), <<x>> when it is x
Nothing == <<>>
Some(x) == <<x>>
\* What the file system holds at a path where there is no file: a value that is
\* no text a file can hold
NoFile == <<"<NoFile>">>

(***************************************************************************)
(* Bounds of the model.                                                    *)
(***************************************************************************)
MaxLen == 2         \* longest file content, in characters
MaxJobs == 2        \* background jobs started in one run

(***************************************************************************)
(* Text helpers.                                                           *)
(***************************************************************************)
RECURSIVE Join(_)
\* str(Path): "/" + "/".join(components)
Join(p) == IF p = <<>> THEN <<>> ELSE <<"/">> \o Head(p) \o Join(Tail(p))

IsPrefix(a, b) == Len(a) <= Len(b) /\ SubSeq(b, 1, Len(a)) = a

Last(s) == s[Len(s)]
Front(s) == SubSeq(s, 1, Len(s) - 1)

\* str.lower() on the characters the model uses
Lower(c) == IF c = "K" THEN "k" ELSE c
LowerText(t) == [i \in 1..Len(t) |-> Lower(t[i])]

(***************************************************************************)
(* The policy the PermissionManager is constructed with, and the paths the *)
(* callers present.  /w is safe and holds the blocked /w/s; /r requires    *)
(* approval; /o is under no rule; the extension .k is blocked.             *)
(***************************************************************************)
c_w == <<"w">>
c_s == <<"s">>
c_r == <<"r">>
c_o == <<"o">>
c_f == <<"f">>
c_fK == <<"f", ".", "K">>
c_sx == <<"s", "x">>
c_d == <<"d">>
c_up == <<".", ".">>

safe_directories == << <<c_w>> >>
blocked_directories == << <<c_w, c_s>> >>
require_approval == << <<c_r>> >>
blocked_types == { <<".", "k">> }

P_safe == <<c_w, c_f>>
P_blk == <<c_w, c_s, c_f>>
P_req == <<c_r, c_f>>
P_oth == <<c_o, c_f>>
P_key == <<c_o, c_fK>>
P_nest == <<c_o, c_d, c_f>>         \* /o/d/f: a file in a directory below /o
P_sx == <<c_w, c_sx>>              \* /w/sx: not under /w/s, but "/w/s" is a prefix of its text
P_dots == <<c_o, c_up, c_w, c_s, c_f>>   \* /o/../w/s/f resolves to /w/s/f

Modes == {"permissive", "moderate", "strict"}
Ops == {"read", "write", "delete"}

(***************************************************************************)
(* error_handlers.py: exceptions and the Error Envelope.                   *)
(* An exception is a record; is_tool_error says whether it is an instance  *)
(* of ToolError.  Keyword arguments kwargs are a function from keyword *)
(* name to value; NoKw is the empty one.                                   *)
(***************************************************************************)
NoKw == [k \in {} |-> None]
NoDetails == [k \in {} |-> None]
\* dict.get(k, default)
Get(d, k, default) == IF k \in DOMAIN d THEN d[k] ELSE default

\* ToolError.__init__: details or {}, suggestions or []
ToolError(message, error_type, details, suggestions, retryable, retry_strategy) ==
    [is_tool_error |-> TRUE, exception_type |-> "ToolError",
     message |-> message, error_type |-> error_type, details |-> details,
     suggestions |-> suggestions, retryable |-> retryable,
     retry_strategy |-> retry_strategy]

\* An exception that is not a ToolError (TypeError, OSError, KeyError, ...)
PyException(exception_type, message) ==
    [is_tool_error |-> FALSE, exception_type |-> exception_type,
     message |-> message, error_type |-> None, details |-> NoDetails,
     suggestions |-> <<>>, retryable |-> FALSE, retry_strategy |-> None]

\* What a subclass's super().__init__(message=..., error_type=..., details=...,
\* suggestions=..., retryable=..., retry_strategy=..., kwargs) evaluates to:
\* every parameter of ToolError.__init__ is already given by keyword, so any
\* keyword left in kwargs is a TypeError raised in place of the ToolError.
SuperInit(err, kwargs) ==
    IF DOMAIN kwargs = {} THEN err
    ELSE PyException("TypeError",
                     IF DOMAIN kwargs \subseteq {"suggestions", "retryable", "retry_strategy",
                                                 "message", "error_type"}
                     THEN "got multiple values for keyword argument"
                     ELSE "got an unexpected keyword argument")

\* kwargs.pop("details", {}) and what is left of kwargs
PopDetails(kwargs) == IF "details" \in DOMAIN kwargs THEN kwargs["details"] ELSE NoDetails
Rest(kwargs) == [k \in DOMAIN kwargs \ {"details"} |-> kwargs[k]]

PermissionSuggestions ==
    <<"Check if the path requires user approval",
      "Verify the path is not in the blocked list",
      "Try requesting permission first">>

\* PermissionError(message, path=None, kwargs); "if path:" is false for None
\* and for the empty text alike, and both are the empty text here
PermissionError(message, path, kwargs) ==
    SuperInit(
        ToolError(message, "permission_denied",
                  IF path # <<>> THEN [path |-> path] @@ PopDetails(kwargs)
                  ELSE PopDetails(kwargs),
                  PermissionSuggestions, TRUE, "request_approval"),
        Rest(kwargs))

\* ValidationError(message, field=None, kwargs): it gives message, error_type,
\* details and retryable to ToolError.__init__ and hands kwargs on, so that
\* suggestions and retry_strategy may come from kwargs and any other keyword
\* is a TypeError raised in place of the ValidationError
ValidationError(message, field, kwargs) ==
    IF DOMAIN Rest(kwargs) \subseteq {"suggestions", "retry_strategy"}
    THEN ToolError(message, "invalid_input",
                   IF field # None THEN [field |-> field] @@ PopDetails(kwargs)
                   ELSE PopDetails(kwargs),
                   Get(Rest(kwargs), "suggestions", <<>>), FALSE,
                   Get(Rest(kwargs), "retry_strategy", None))
    ELSE SuperInit(ToolError(message, "invalid_input", NoDetails, <<>>, FALSE, None),
                   Rest(kwargs))

\* ToolError.to_dict
to_dict(e) ==
    [error |-> TRUE, error_type |-> e.error_type, message |-> e.message,
     details |-> e.details, suggestions |-> e.suggestions,
     retryable |-> e.retryable, retry_strategy |-> e.retry_strategy]

create_error_response(e) ==
    IF e.is_tool_error THEN to_dict(e)
    ELSE [error |-> TRUE, error_type |-> "unknown", message |-> e.message,
          details |-> [exception_type |-> e.exception_type],
          suggestions |-> <<>>, retryable |-> FALSE, retry_strategy |-> None]

IsError(r) == "error" \in DOMAIN r
IsSuccess(r) == "success" \in DOMAIN r /\ r.success = TRUE

(***************************************************************************)
(* access_control.py: PermissionManager.                                   *)
(***************************************************************************)
RECURSIVE Resolve(_, _)
\* Path.resolve(): ".." drops the component before it (the root has no parent)
Resolve(raw, acc) ==
    IF raw = <<>> THEN acc
    ELSE IF Head(raw) = c_up
         THEN Resolve(Tail(raw), IF acc = <<>> THEN acc ELSE Front(acc))
         ELSE Resolve(Tail(raw), Append(acc, Head(raw)))

normalize_path(path) == Resolve(path, <<>>)

\* Path.relative_to(dir) succeeds: dir's components are a prefix of path's
relative_to(path, dir) == IsPrefix(dir, path)

RECURSIVE RegexMatch(_, _)
\* re.match of a pattern whose "*" has become ".*" and whose "." matches any
\* character, anchored at the start only
RegexMatch(pat, s) ==
    IF pat = <<>> THEN TRUE
    ELSE IF Head(pat) = "*"
         THEN \E k \in 0..Len(s) : RegexMatch(Tail(pat), SubSeq(s, k + 1, Len(s)))
         ELSE /\ s # <<>>
              /\ Head(pat) = "." \/ Head(pat) = Head(s)
              /\ RegexMatch(Tail(pat), Tail(s))

match_pattern(path, pattern) == RegexMatch(Join(Resolve(pattern, <<>>)), Join(path))

InDirectories(path, dirs) ==
    \E i \in DOMAIN dirs :
        relative_to(path, normalize_path(dirs[i])) \/ match_pattern(path, dirs[i])

is_safe_directory(path) == InDirectories(path, safe_directories)
is_blocked_directory(path) == InDirectories(path, blocked_directories)
requires_approval(path) == InDirectories(path, require_approval)

\* Path.suffix: the last component from its last dot, unless that dot is its
\* first or its last character
suffix(path) ==
    IF path = <<>> THEN <<>>
    ELSE LET name == Last(path)
             dots == {i \in 1..Len(name) : name[i] = "."}
             d == IF dots = {} THEN 0 ELSE CHOOSE i \in dots : \A j \in dots : j <= i
         IN IF d <= 1 \/ d = Len(name) THEN <<>> ELSE SubSeq(name, d, Len(name))

approval_key(operation, path) == <<operation, Join(path)>>

ApprovalRequiredSuggestions ==
    <<"Add the directory to safe_directories in config",
      "Approve the operation when prompted">>

\* The outcome of a call: the exception it raised (or None) and the approval
\* set it leaves.
Raise(e, approvals) == [raised |-> TRUE, exc |-> e, approvals |-> approvals]
Return(approvals) == [raised |-> FALSE, exc |-> None, approvals |-> approvals]

\* check_file_access with the approval cache consulted before the blocked
\* directories
check_file_access_cache_first(path, operation, auto_approve, approvals, md) ==
    LET file_path == normalize_path(path)
        key == approval_key(operation, file_path)
    IN IF auto_approve /\ key \in approvals
       THEN Return(approvals)
       ELSE IF is_safe_directory(file_path)
       THEN Return(approvals \cup {key})
       ELSE IF is_blocked_directory(file_path)
       THEN Raise(PermissionError("is in blocked directories", Join(file_path), NoKw),
                  approvals)
       ELSE Return(approvals \cup {key})

check_file_access(path, operation, auto_approve, approvals, md) ==
    LET file_path == normalize_path(path)
        key == approval_key(operation, file_path)
    IN IF is_blocked_directory(file_path)
       THEN Raise(PermissionError("is in blocked directories", Join(file_path), NoKw),
                  approvals)
       ELSE IF operation \in {"read", "write"} /\ LowerText(suffix(file_path)) \in blocked_types
       THEN Raise(PermissionError("file type is blocked", Join(file_path), NoKw), approvals)
       ELSE IF auto_approve /\ key \in approvals
       THEN Return(approvals)
       ELSE IF is_safe_directory(file_path)
       THEN Return(approvals \cup {key})
       ELSE IF requires_approval(file_path) \/ md = "strict"
       THEN Raise(PermissionError("user approval required", Join(file_path),
                                  [suggestions |-> ApprovalRequiredSuggestions]),
                  approvals)
       ELSE Return(approvals \cup {key})

\* approve(operation, resource): the key is built from the resource as given
approve(operation, resource, approvals) == approvals \cup {approval_key(operation, resource)}
revoke(operation, resource, approvals) == approvals \ {approval_key(operation, resource)}

(***************************************************************************)
(* validators.py: InputValidator.validate_file_path.                       *)
(* The directories of the model exist from the start and are never         *)
(* removed; a file exists when the filesystem holds a content for it.      *)
(***************************************************************************)
Dirs == {<<>>, <<c_w>>, <<c_w, c_s>>, <<c_r>>, <<c_o>>, <<c_o, c_d>>}

Exists(fs, path) == path \in Dirs \/ (path \in DOMAIN fs /\ fs[path] # NoFile)
IsFile(fs, path) == path \in DOMAIN fs /\ fs[path] # NoFile

\* [raised, exc, path]: the resolved path, or the ValidationError raised
validate_file_path(path, must_exist, fs) ==
    IF path = <<>>
    THEN [raised |-> TRUE, path |-> path,
          exc |-> ValidationError("Path must be a non-empty string", "path", NoKw)]
    ELSE LET file_path == Resolve(path, <<>>)
         IN IF must_exist /\ ~Exists(fs, file_path)
            THEN [raised |-> TRUE, path |-> file_path,
                  exc |-> ValidationError("Path does not exist", "path",
                                          [details |-> [path |-> Join(file_path)]])]
            ELSE [raised |-> FALSE, path |-> file_path, exc |-> None]

(***************************************************************************)
(* Python text operations used by the file tools.                          *)
(***************************************************************************)
RECURSIVE Count(_, _)
\* str.count(old): non-overlapping occurrences, scanning from the left
Count(s, old) ==
    IF old = <<>> THEN Len(s) + 1
    ELSE IF Len(s) < Len(old) THEN 0
    ELSE IF IsPrefix(old, s) THEN 1 + Count(SubSeq(s, Len(old) + 1, Len(s)), old)
    ELSE Count(Tail(s), old)

RECURSIVE Interleave(_, _, _)
\* str.replace("", new, n): new goes before each of the first n characters,
\* and after the last one when n allows one more
Interleave(s, new, n) ==
    IF n = 0 THEN s
    ELSE IF s = <<>> THEN new
    ELSE new \o <<Head(s)>> \o Interleave(Tail(s), new, IF n < 0 THEN n ELSE n - 1)

RECURSIVE Replace(_, _, _, _)
\* str.replace(old, new, n): the first n occurrences; n = -1 replaces all
Replace(s, old, new, n) ==
    IF n = 0 THEN s
    ELSE IF old = <<>> THEN Interleave(s, new, n)
    ELSE IF Len(s) < Len(old) THEN s
    ELSE IF IsPrefix(old, s)
         THEN new \o Replace(SubSeq(s, Len(old) + 1, Len(s)), old, new,
                             IF n < 0 THEN n ELSE n - 1)
    ELSE <<Head(s)>> \o Replace(Tail(s), old, new, n)

Whitespace == {" ", "\n", "\t", "\r"}

RECURSIVE rstrip(_)
\* str.rstrip(): trailing whitespace removed
rstrip(s) == IF s # <<>> /\ Last(s) \in Whitespace THEN rstrip(Front(s)) ELSE s

RECURSIVE universal_newlines(_)
\* open(path, "r") with the default newline=None: on input "\r\n" and a lone
\* "\r" are translated to "\n"
universal_newlines(s) ==
    IF s = <<>> THEN <<>>
    ELSE IF Head(s) = "\r"
    THEN <<"\n">> \o universal_newlines(IF Len(s) > 1 /\ s[2] = "\n" THEN Tail(Tail(s))
                                         ELSE Tail(s))
    ELSE <<Head(s)>> \o universal_newlines(Tail(s))

RECURSIVE readlines(_, _)
\* file.readlines(): the lines of a text, each keeping its newline
readlines(s, cur) ==
    IF s = <<>> THEN (IF cur = <<>> THEN <<>> ELSE <<cur>>)
    ELSE IF Head(s) = "\n" THEN <<Append(cur, "\n")>> \o readlines(Tail(s), <<>>)
    ELSE readlines(Tail(s), Append(cur, Head(s)))

Digits == <<"0", "1", "2", "3", "4", "5", "6", "7", "8", "9">>

RECURSIVE Decimal(_)
Decimal(n) == IF n < 10 THEN <<Digits[n + 1]>> ELSE Append(Decimal(n \div 10), Digits[(n % 10) + 1])

RECURSIVE Pad(_, _)
\* right-aligned in a field of the given width, as the format {i:6d}
Pad(t, width) == IF Len(t) >= width THEN t ELSE Pad(<<" ">> \o t, width)

RECURSIVE format_lines(_, _)
\* "\n".join(f"{i:6d}\t{line.rstrip()}" for i, line in enumerate(lines, start))
format_lines(lines, start) ==
    IF lines = <<>> THEN <<>>
    ELSE Pad(Decimal(start), 6) \o <<"\t">> \o rstrip(Head(lines)) \o
         (IF Tail(lines) = <<>> THEN <<>> ELSE <<"\n">> \o format_lines(Tail(lines), start + 1))

Max(a, b) == IF a >= b THEN a ELSE b

(***************************************************************************)
(* file_tools.py: FileTools.  Each tool is an operator from its arguments, *)
(* the fault the environment injects and the state before the call to the  *)
(* response and the state after it.  Faults: "copy" makes shutil.copy2     *)
(* raise, "open" makes opening the target raise, "write" makes the write   *)
(* raise after the target has been truncated, "unlink" makes unlink raise. *)
(***************************************************************************)
Faults == {"none", "copy", "open", "write", "unlink"}

backup_enabled == TRUE
backup_suffix == <<".", "b", "a", "c", "k", "u", "p">>

\* Path(str(path) + suffix)
BackupPath(path, sfx) == Append(Front(path), Last(path) \o sfx)

\* check: whether the call reached check_file_access and what it answered;
\* steps: what the call did, in order
Outcome(resp, fs, approvals) ==
    [resp |-> resp, files |-> fs, approvals |-> approvals, check |-> "allowed",
     steps |-> <<"validate", "check">>]
Invalid(resp, fs, approvals) ==
    [resp |-> resp, files |-> fs, approvals |-> approvals, check |-> "skipped",
     steps |-> <<"validate">>]
Denied(resp, fs, approvals) ==
    [resp |-> resp, files |-> fs, approvals |-> approvals, check |-> "denied",
     steps |-> <<"validate", "check">>]
\* an outcome of a call that went on to take the steps given
Performed(outcome, steps) == [outcome EXCEPT !.steps = @ \o steps]

OSError(what) == PyException("OSError", what)

read_file(file_path, offset, limit, fault, fs, approvals, md) ==
    LET v == validate_file_path(file_path, TRUE, fs)
        perm == check_file_access(v.path, "read", FALSE, approvals, md)
    IN IF v.raised THEN Invalid(create_error_response(v.exc), fs, approvals)
       ELSE IF perm.raised THEN Denied(create_error_response(perm.exc), fs, perm.approvals)
       ELSE IF ~IsFile(fs, v.path) \/ fault = "open"
       THEN Outcome(create_error_response(OSError("cannot read")), fs, perm.approvals)
       ELSE LET lines == readlines(universal_newlines(fs[v.path]), <<>>)
                off == IF offset # Nothing THEN Max(1, offset[1]) ELSE 1
                l1 == SubSeq(lines, off, Len(lines))
                lim == IF limit # Nothing THEN Max(1, limit[1]) ELSE Len(l1)
                l2 == SubSeq(l1, 1, IF lim < Len(l1) THEN lim ELSE Len(l1))
                start_line == off
            IN Outcome([success |-> TRUE, file_path |-> Join(v.path),
                        total_lines |-> Len(lines), lines_returned |-> Len(l2),
                        start_line |-> start_line,
                        content |-> format_lines(l2, start_line)],
                       fs, perm.approvals)

\* write_file that copies to the backup path after it has written the target
write_file_backup_after(file_path, content, create_backup, fault, fs, approvals, md) ==
    LET v == validate_file_path(file_path, FALSE, fs)
        path == v.path
        file_exists == Exists(fs, path)
        perm == check_file_access(path, "write", FALSE, approvals, md)
        should_backup == IF create_backup # Nothing THEN create_backup[1] ELSE backup_enabled
        do_backup == file_exists /\ should_backup
        copied == IF do_backup THEN <<"copy">> ELSE <<>>
        backup_path == BackupPath(path, backup_suffix)
        fs1 == [fs EXCEPT ![path] = content]
        fs2 == IF do_backup THEN [fs1 EXCEPT ![backup_path] = content] ELSE fs1
    IN IF v.raised THEN Invalid(create_error_response(v.exc), fs, approvals)
       ELSE IF perm.raised THEN Denied(create_error_response(perm.exc), fs, perm.approvals)
       ELSE IF path \in Dirs \/ fault \in {"open", "write", "copy"}
       THEN Outcome(create_error_response(OSError("failed")), fs, perm.approvals)
       ELSE Outcome([success |-> TRUE, file_path |-> Join(path),
                     lines_written |-> Len(readlines(content, <<>>)),
                     bytes_written |-> Len(content),
                     backup_created |-> do_backup,
                     backup_path |-> IF do_backup THEN Join(backup_path) ELSE <<>>,
                     operation |-> IF file_exists THEN "overwrite" ELSE "create"],
                    fs2, perm.approvals)

\* a character str.encode("utf-8") refuses: a lone surrogate code point
Surrogate == "<U+D800>"

\* an exception that leaves the tool method: the caller gets no response
RaisedToCaller(exc, fs, approvals) ==
    [resp |-> [raised |-> TRUE, exception_type |-> exc.exception_type],
     files |-> fs, approvals |-> approvals, check |-> "skipped", steps |-> <<>>]

\* write_file: content.encode("utf-8") is evaluated before the try block
write_file(file_path, content, create_backup, fault, fs, approvals, md) ==
    LET v == validate_file_path(file_path, FALSE, fs)
        path == v.path
        file_exists == Exists(fs, path)
        perm == check_file_access(path, "write", FALSE, approvals, md)
        should_backup == IF create_backup # Nothing THEN create_backup[1] ELSE backup_enabled
        do_backup == file_exists /\ should_backup
        copied == IF do_backup THEN <<"copy">> ELSE <<>>
        backup_path == BackupPath(path, backup_suffix)
        fs1 == IF do_backup THEN [fs EXCEPT ![backup_path] = fs[path]] ELSE fs
        fs2 == [fs1 EXCEPT ![path] = <<>>]
        fs3 == [fs1 EXCEPT ![path] = content]
    IN IF \E i \in DOMAIN content : content[i] = Surrogate
       THEN RaisedToCaller(PyException("UnicodeEncodeError", "surrogates not allowed"),
                           fs, approvals)
       ELSE IF v.raised THEN Invalid(create_error_response(v.exc), fs, approvals)
       ELSE IF perm.raised THEN Denied(create_error_response(perm.exc), fs, perm.approvals)
       ELSE IF do_backup /\ (~IsFile(fs, path) \/ fault = "copy")
       THEN Performed(Outcome(create_error_response(OSError("copy failed")), fs,
                              perm.approvals),
                      <<"copy">>)
       ELSE IF path \in Dirs \/ fault = "open"
       THEN Performed(Outcome(create_error_response(OSError("open failed")), fs1,
                              perm.approvals),
                      copied \o <<"mkdir", "open">>)
       ELSE IF fault = "write"
       THEN Performed(Outcome(create_error_response(OSError("write failed")), fs2,
                              perm.approvals),
                      copied \o <<"mkdir", "open", "write">>)
       ELSE Performed(Outcome([success |-> TRUE, file_path |-> Join(path),
                               lines_written |->
                                   Len(readlines(universal_newlines(content), <<>>)),
                               bytes_written |-> Len(content),
                               backup_created |-> do_backup,
                               backup_path |-> IF do_backup THEN Join(backup_path)
                                               ELSE <<>>,
                               operation |-> IF file_exists THEN "overwrite"
                                             ELSE "create"],
                              fs3, perm.approvals),
                      copied \o <<"mkdir", "open", "write">>)

StringNotFoundSuggestions ==
    <<"Check if the string is correct",
      "Use Grep to search for similar strings",
      "Provide more context around the string">>

AmbiguousSuggestions ==
    <<"Set replace_all=true", "Provide more context to make the match unique">>

edit_backup_suffix == <<".", "b", "a", "c", "k", "u", "p">>

\* edit_file that goes on to write when the copy to the backup path failed
edit_file_copy_ignored(file_path, old_string, new_string, replace_all, fault, fs, approvals, md) ==
    LET v == validate_file_path(file_path, TRUE, fs)
        path == v.path
        perm == check_file_access(path, "write", FALSE, approvals, md)
        content == universal_newlines(fs[path])
        occurrences == Count(content, old_string)
        new_content == IF replace_all THEN Replace(content, old_string, new_string, -1)
                       ELSE Replace(content, old_string, new_string, 1)
        backup_path == BackupPath(path, edit_backup_suffix)
        fs1 == IF fault = "copy" THEN fs ELSE [fs EXCEPT ![backup_path] = fs[path]]
    IN IF v.raised THEN Invalid(create_error_response(v.exc), fs, approvals)
       ELSE IF perm.raised THEN Denied(create_error_response(perm.exc), fs, perm.approvals)
       ELSE IF ~IsFile(fs, path) \/ occurrences = 0 \/ (occurrences > 1 /\ ~replace_all)
       THEN Outcome(create_error_response(OSError("failed")), fs, perm.approvals)
       ELSE Outcome([success |-> TRUE, file_path |-> Join(path),
                     replacements_made |-> IF replace_all THEN occurrences ELSE 1,
                     total_occurrences |-> occurrences,
                     replace_all |-> replace_all,
                     backup_path |-> Join(backup_path)],
                    [fs1 EXCEPT ![path] = new_content], perm.approvals)

\* edit_file that copies to the backup path before it counts the occurrences
edit_file_backup_first(file_path, old_string, new_string, replace_all, fault, fs, approvals, md) ==
    LET v == validate_file_path(file_path, TRUE, fs)
        path == v.path
        perm == check_file_access(path, "write", FALSE, approvals, md)
        content == universal_newlines(fs[path])
        occurrences == Count(content, old_string)
        new_content == IF replace_all THEN Replace(content, old_string, new_string, -1)
                       ELSE Replace(content, old_string, new_string, 1)
        replacements == IF replace_all THEN occurrences ELSE 1
        backup_path == BackupPath(path, edit_backup_suffix)
        fs1 == [fs EXCEPT ![backup_path] = fs[path]]
        fs2 == [fs1 EXCEPT ![path] = <<>>]
        fs3 == [fs1 EXCEPT ![path] = new_content]
    IN IF v.raised THEN Invalid(create_error_response(v.exc), fs, approvals)
       ELSE IF perm.raised THEN Denied(create_error_response(perm.exc), fs, perm.approvals)
       ELSE IF ~IsFile(fs, path)
       THEN Outcome(create_error_response(OSError("cannot read")), fs, perm.approvals)
       ELSE IF occurrences = 0
       THEN Outcome(create_error_response(
                        ToolError("String not found in file", "unknown",
                                  [old_string |-> old_string],
                                  StringNotFoundSuggestions, FALSE, None)),
                    fs1, perm.approvals)
       ELSE IF occurrences > 1 /\ ~replace_all
       THEN Outcome(create_error_response(
                        ToolError("Found several occurrences", "unknown",
                                  [occurrences |-> occurrences],
                                  AmbiguousSuggestions, FALSE, None)),
                    fs, perm.approvals)
       ELSE IF fault = "copy"
       THEN Performed(Outcome(create_error_response(OSError("copy failed")), fs,
                              perm.approvals),
                      <<"copy">>)
       ELSE IF fault = "open"
       THEN Performed(Outcome(create_error_response(OSError("open failed")), fs1,
                              perm.approvals),
                      <<"copy", "open">>)
       ELSE IF fault = "write"
       THEN Performed(Outcome(create_error_response(OSError("write failed")), fs2,
                              perm.approvals),
                      <<"copy", "open", "write">>)
       ELSE Performed(Outcome([success |-> TRUE, file_path |-> Join(path),
                               replacements_made |-> replacements,
                               total_occurrences |-> occurrences,
                               replace_all |-> replace_all,
                               backup_path |-> Join(backup_path)],
                              fs3, perm.approvals),
                      <<"copy", "open", "write">>)

\* edit_file that replaces the first occurrence only, whatever replace_all says
edit_file_first_only(file_path, old_string, new_string, replace_all, fault, fs, approvals, md) ==
    LET v == validate_file_path(file_path, TRUE, fs)
        path == v.path
        perm == check_file_access(path, "write", FALSE, approvals, md)
        content == universal_newlines(fs[path])
        occurrences == Count(content, old_string)
        new_content == Replace(content, old_string, new_string, 1)
        replacements == IF replace_all THEN occurrences ELSE 1
        backup_path == BackupPath(path, edit_backup_suffix)
        fs1 == [fs EXCEPT ![backup_path] = fs[path]]
        fs2 == [fs1 EXCEPT ![path] = <<>>]
        fs3 == [fs1 EXCEPT ![path] = new_content]
    IN IF v.raised THEN Invalid(create_error_response(v.exc), fs, approvals)
       ELSE IF perm.raised THEN Denied(create_error_response(perm.exc), fs, perm.approvals)
       ELSE IF ~IsFile(fs, path)
       THEN Outcome(create_error_response(OSError("cannot read")), fs, perm.approvals)
       ELSE IF occurrences = 0
       THEN Outcome(create_error_response(
                        ToolError("String not found in file", "unknown",
                                  [old_string |-> old_string],
                                  StringNotFoundSuggestions, FALSE, None)),
                    fs, perm.approvals)
       ELSE IF occurrences > 1 /\ ~replace_all
       THEN Outcome(create_error_response(
                        ToolError("Found several occurrences", "unknown",
                                  [occurrences |-> occurrences],
                                  AmbiguousSuggestions, FALSE, None)),
                    fs, perm.approvals)
       ELSE IF fault = "copy"
       THEN Performed(Outcome(create_error_response(OSError("copy failed")), fs,
                              perm.approvals),
                      <<"copy">>)
       ELSE IF fault = "open"
       THEN Performed(Outcome(create_error_response(OSError("open failed")), fs1,
                              perm.approvals),
                      <<"copy", "open">>)
       ELSE IF fault = "write"
       THEN Performed(Outcome(create_error_response(OSError("write failed")), fs2,
                              perm.approvals),
                      <<"copy", "open", "write">>)
       ELSE Performed(Outcome([success |-> TRUE, file_path |-> Join(path),
                               replacements_made |-> replacements,
                               total_occurrences |-> occurrences,
                               replace_all |-> replace_all,
                               backup_path |-> Join(backup_path)],
                              fs3, perm.approvals),
                      <<"copy", "open", "write">>)

edit_file(file_path, old_string, new_string, replace_all, fault, fs, approvals, md) ==
    LET v == validate_file_path(file_path, TRUE, fs)
        path == v.path
        perm == check_file_access(path, "write", FALSE, approvals, md)
        content == universal_newlines(fs[path])
        occurrences == Count(content, old_string)
        new_content == IF replace_all THEN Replace(content, old_string, new_string, -1)
                       ELSE Replace(content, old_string, new_string, 1)
        replacements == IF replace_all THEN occurrences ELSE 1
        backup_path == BackupPath(path, edit_backup_suffix)
        fs1 == [fs EXCEPT ![backup_path] = fs[path]]
        fs2 == [fs1 EXCEPT ![path] = <<>>]
        fs3 == [fs1 EXCEPT ![path] = new_content]
    IN IF v.raised THEN Invalid(create_error_response(v.exc), fs, approvals)
       ELSE IF perm.raised THEN Denied(create_error_response(perm.exc), fs, perm.approvals)
       ELSE IF ~IsFile(fs, path)
       THEN Outcome(create_error_response(OSError("cannot read")), fs, perm.approvals)
       ELSE IF occurrences = 0
       THEN Outcome(create_error_response(
                        ToolError("String not found in file", "unknown",
                                  [old_string |-> old_string],
                                  StringNotFoundSuggestions, FALSE, None)),
                    fs, perm.approvals)
       ELSE IF occurrences > 1 /\ ~replace_all
       THEN Outcome(create_error_response(
                        ToolError("Found several occurrences", "unknown",
                                  [occurrences |-> occurrences],
                                  AmbiguousSuggestions, FALSE, None)),
                    fs, perm.approvals)
       ELSE IF fault = "copy"
       THEN Performed(Outcome(create_error_response(OSError("copy failed")), fs,
                              perm.approvals),
                      <<"copy">>)
       ELSE IF fault = "open"
       THEN Performed(Outcome(create_error_response(OSError("open failed")), fs1,
                              perm.approvals),
                      <<"copy", "open">>)
       ELSE IF fault = "write"
       THEN Performed(Outcome(create_error_response(OSError("write failed")), fs2,
                              perm.approvals),
                      <<"copy", "open", "write">>)
       ELSE Performed(Outcome([success |-> TRUE, file_path |-> Join(path),
                               replacements_made |-> replacements,
                               total_occurrences |-> occurrences,
                               replace_all |-> replace_all,
                               backup_path |-> Join(backup_path)],
                              fs3, perm.approvals),
                      <<"copy", "open", "write">>)

\* delete_file that unlinks whatever the permission check says
delete_file_unchecked(file_path, fault, fs, approvals, md) ==
    LET v == validate_file_path(file_path, TRUE, fs)
        path == v.path
    IN IF v.raised THEN Invalid(create_error_response(v.exc), fs, approvals)
       ELSE IF ~IsFile(fs, path) \/ fault = "unlink"
       THEN Performed(Outcome(create_error_response(OSError("unlink failed")), fs,
                              approvals),
                      <<"unlink">>)
       ELSE Performed(Outcome([success |-> TRUE, file_path |-> Join(path),
                               operation |-> "deleted"],
                              [fs EXCEPT ![path] = NoFile], approvals),
                      <<"unlink">>)

delete_file(file_path, fault, fs, approvals, md) ==
    LET v == validate_file_path(file_path, TRUE, fs)
        path == v.path
        perm == check_file_access(path, "delete", FALSE, approvals, md)
    IN IF v.raised THEN Invalid(create_error_response(v.exc), fs, approvals)
       ELSE IF perm.raised THEN Denied(create_error_response(perm.exc), fs, perm.approvals)
       ELSE IF ~IsFile(fs, path) \/ fault = "unlink"
       THEN Performed(Outcome(create_error_response(OSError("unlink failed")), fs,
                              perm.approvals),
                      <<"unlink">>)
       ELSE Performed(Outcome([success |-> TRUE, file_path |-> Join(path),
                               operation |-> "deleted"],
                              [fs EXCEPT ![path] = NoFile], perm.approvals),
                      <<"unlink">>)

(***************************************************************************)
(* error_recovery.py: ErrorRecoverySystem.  An error, a context and a      *)
(* strategy table are dicts: functions from key to value.                  *)
(***************************************************************************)
max_retries == 3
backoff_base_default == 2
backoff_max_default == 30
timeout_default == 30
retry_after_default == 5
\* the default timeout_multiplier 1.5, as the ratio 3/2
timeout_multiplier_default == <<3, 2>>

OpIds == {"op1", "op2"}

\* The members of the enumeration RetryStrategy
RetryStrategy ==
    {"request_approval", "search_alternatives", "fix_and_retry", "exponential_backoff",
     "increase_timeout", "wait_and_retry", "report_and_ask"}

\* should_retry with the ceiling compared by > in place of >=
should_retry_off_by_one(error, operation_id, enabled, counts) ==
    /\ enabled
    /\ Get(error, "retryable", FALSE)
    /\ ~(Get(counts, operation_id, 0) > max_retries)

\* should_retry with a missing retryable flag read as true
should_retry_default_true(error, operation_id, enabled, counts) ==
    /\ enabled
    /\ Get(error, "retryable", TRUE)
    /\ ~(Get(counts, operation_id, 0) >= max_retries)

should_retry(error, operation_id, enabled, counts) ==
    IF ~enabled THEN FALSE
    ELSE IF ~Get(error, "retryable", FALSE) THEN FALSE
    ELSE IF Get(counts, operation_id, 0) >= max_retries THEN FALSE
    ELSE TRUE

\* get_retry_strategy where an unrecognised name yields no strategy
get_retry_strategy_strict(error, table) ==
    LET named == Get(error, "retry_strategy", None)
        strategy_name == IF named \in {None, ""}
                         THEN Get(Get(table, Get(error, "error_type", "unknown"), NoKw),
                                  "action", None)
                         ELSE named
    IN IF strategy_name \in RetryStrategy THEN strategy_name ELSE None

\* A strategy of RetryStrategy, or None
get_retry_strategy(error, table) ==
    LET error_type == Get(error, "error_type", "unknown")
        named == Get(error, "retry_strategy", None)
        strategy_name == IF named \in {None, ""}
                         THEN Get(Get(table, error_type, NoKw), "action", None)
                         ELSE named
    IN IF strategy_name \notin {None, ""}
       THEN IF strategy_name \in RetryStrategy THEN strategy_name ELSE "report_and_ask"
       ELSE None

RECURSIVE Pow(_, _)
Pow(b, n) == IF n = 0 THEN 1 ELSE b * Pow(b, n - 1)

Min(a, b) == IF a <= b THEN a ELSE b

\* _execute_strategy whose exponential backoff is not held to backoff_max
execute_strategy_uncapped(strategy, error, context, table, counts) ==
    IF strategy = "request_approval"
    THEN [action |-> "request_approval",
          resource |-> Get(context, "resource", None),
          operation |-> Get(context, "operation", None),
          suggestions |-> Get(error, "suggestions", <<>>)]
    ELSE IF strategy = "search_alternatives"
    THEN [action |-> "search",
          pattern |-> Get(context, "pattern", None),
          suggestions |-> Get(error, "suggestions", <<>>)]
    ELSE IF strategy = "fix_and_retry"
    THEN [action |-> "fix",
          error_details |-> Get(error, "details", NoDetails),
          suggestions |-> Get(error, "suggestions", <<>>)]
    ELSE IF strategy = "exponential_backoff"
    THEN LET backoff_config == Get(table, "network_error", NoKw)
             backoff_base == Get(backoff_config, "backoff_base", backoff_base_default)
             backoff_max == Get(backoff_config, "backoff_max", backoff_max_default)
             retry_count == Get(counts, Get(context, "operation_id", ""), 0)
         IN [action |-> "wait",
             wait_seconds |-> Pow(backoff_base, retry_count)]
    ELSE IF strategy = "increase_timeout"
    THEN LET timeout_config == Get(table, "timeout", NoKw)
             multiplier == Get(timeout_config, "timeout_multiplier", timeout_multiplier_default)
             current_timeout == Get(context, "timeout", timeout_default)
         IN [action |-> "retry",
             new_timeout |-> (current_timeout * multiplier[1]) \div multiplier[2]]
    ELSE IF strategy = "wait_and_retry"
    THEN [action |-> "wait",
          wait_seconds |-> Get(Get(error, "details", NoDetails), "retry_after_seconds",
                               retry_after_default)]
    ELSE [action |-> "ask_user", error |-> error,
          suggestions |-> Get(error, "suggestions", <<>>)]


\* _execute_strategy: the directive, before its retry_count is attached
execute_strategy(strategy, error, context, table, counts) ==
    IF strategy = "request_approval"
    THEN [action |-> "request_approval",
          resource |-> Get(context, "resource", None),
          operation |-> Get(context, "operation", None),
          suggestions |-> Get(error, "suggestions", <<>>)]
    ELSE IF strategy = "search_alternatives"
    THEN [action |-> "search",
          pattern |-> Get(context, "pattern", None),
          suggestions |-> Get(error, "suggestions", <<>>)]
    ELSE IF strategy = "fix_and_retry"
    THEN [action |-> "fix",
          error_details |-> Get(error, "details", NoDetails),
          suggestions |-> Get(error, "suggestions", <<>>)]
    ELSE IF strategy = "exponential_backoff"
    THEN LET backoff_config == Get(table, "network_error", NoKw)
             backoff_base == Get(backoff_config, "backoff_base", backoff_base_default)
             backoff_max == Get(backoff_config, "backoff_max", backoff_max_default)
             retry_count == Get(counts, Get(context, "operation_id", ""), 0)
         IN [action |-> "wait",
             wait_seconds |-> Min(Pow(backoff_base, retry_count), backoff_max)]
    ELSE IF strategy = "increase_timeout"
    THEN LET timeout_config == Get(table, "timeout", NoKw)
             multiplier == Get(timeout_config, "timeout_multiplier", timeout_multiplier_default)
             current_timeout == Get(context, "timeout", timeout_default)
         IN [action |-> "retry",
             new_timeout |-> (current_timeout * multiplier[1]) \div multiplier[2]]
    ELSE IF strategy = "wait_and_retry"
    THEN [action |-> "wait",
          wait_seconds |-> Get(Get(error, "details", NoDetails), "retry_after_seconds",
                               retry_after_default)]
    ELSE [action |-> "ask_user", error |-> error,
          suggestions |-> Get(error, "suggestions", <<>>)]

\* handle_error that counts the attempt before it decides to fail
handle_error_count_first(error, operation_id, context, enabled, table, counts) ==
    LET counts1 == (operation_id :> (Get(counts, operation_id, 0) + 1)) @@ counts
        strategy == get_retry_strategy(error, table)
    IN IF ~should_retry(error, operation_id, enabled, counts) \/ strategy = None
       THEN [directive |-> [action |-> "fail",
                            message |-> "Maximum retries exceeded or error not retryable",
                            error |-> error],
             counts |-> counts1]
       ELSE [directive |-> execute_strategy(strategy, error, context, table, counts1)
                              @@ [retry_count |-> counts1[operation_id]],
             counts |-> counts1]

\* [directive, counts]: the directive returned and the ledger left
handle_error(error, operation_id, context, enabled, table, counts) ==
    LET strategy == get_retry_strategy(error, table)
        counts1 == (operation_id :> (Get(counts, operation_id, 0) + 1)) @@ counts
    IN IF ~should_retry(error, operation_id, enabled, counts)
       THEN [directive |-> [action |-> "fail",
                            message |-> "Maximum retries exceeded or error not retryable",
                            error |-> error],
             counts |-> counts]
       ELSE IF strategy = None
       THEN [directive |-> [action |-> "fail",
                            message |-> "No retry strategy available",
                            error |-> error],
             counts |-> counts]
       ELSE [directive |-> execute_strategy(strategy, error, context, table, counts1)
                              @@ [retry_count |-> counts1[operation_id]],
             counts |-> counts1]

\* reset_retry_count that clears the whole ledger
reset_retry_count_all(operation_id, counts) == NoKw

\* reset_retry_count: del retry_counts[operation_id] when it is there
reset_retry_count(operation_id, counts) ==
    [id \in DOMAIN counts \ {operation_id} |-> counts[id]]

get_retry_count(operation_id, counts) == Get(counts, operation_id, 0)

(***************************************************************************)
(* The callers: what they present to the PermissionManager and FileTools.  *)
(***************************************************************************)
FilePaths == {P_safe, P_blk, P_req, P_oth, P_key, P_sx, P_nest}
FsPaths == FilePaths \cup {BackupPath(p, backup_suffix) : p \in FilePaths}
InitialFiles == {P_blk, P_req, P_oth, P_key, P_sx}

NoCall == [tool |-> "none", args |-> NoKw, fault |-> "none", check |-> "skipped",
           resp |-> NoKw]

\* The state after construction, but for the configuration
Constructed ==
    /\ session_approvals = {}
    /\ files = [p \in FsPaths |-> IF p \in InitialFiles THEN <<"a">> ELSE NoFile]
    /\ last = NoCall
    /\ retry_counts = NoKw
    /\ issued = [id \in OpIds |-> 0]
    /\ background_jobs = NoKw
    /\ used_ids = {}
    /\ read_once = {}
    /\ calls = NoKw

Init ==
    /\ mode \in Modes
    /\ recovery_enabled = TRUE
    /\ strategies = NoKw
    /\ Constructed

others == <<recovery_enabled, strategies, retry_counts, issued,
            background_jobs, used_ids, read_once, calls>>

\* A direct call of PermissionManager.check_file_access
CheckFileAccess(path, operation, auto_approve) ==
    \E r \in {check_file_access(path, operation, auto_approve, session_approvals, mode)} :
       /\ session_approvals' = r.approvals
       /\ last' = [tool |-> "check_file_access",
                   args |-> [path |-> path, operation |-> operation,
                             auto_approve |-> auto_approve],
                   fault |-> "none",
                   check |-> IF r.raised THEN "denied" ELSE "allowed",
                   resp |-> IF r.raised THEN [raised |-> r.exc] ELSE [returned |-> TRUE]]
       /\ UNCHANGED <<mode, files, others>>

Approve(operation, resource) ==
    /\ session_approvals' = approve(operation, resource, session_approvals)
    /\ last' = [tool |-> "approve", args |-> [path |-> resource, operation |-> operation],
                fault |-> "none", check |-> "skipped", resp |-> NoKw]
    /\ UNCHANGED <<mode, files, others>>

Revoke(operation, resource) ==
    /\ session_approvals' = revoke(operation, resource, session_approvals)
    /\ last' = [tool |-> "revoke", args |-> [path |-> resource, operation |-> operation],
                fault |-> "none", check |-> "skipped", resp |-> NoKw]
    /\ UNCHANGED <<mode, files, others>>

\* The state after a file tool has returned
Returned(tool, args, fault, out) ==
    /\ \A p \in DOMAIN out.files :
           IF out.files[p] = NoFile THEN TRUE ELSE Len(out.files[p]) <= MaxLen
    /\ files' = out.files
    /\ session_approvals' = out.approvals
    /\ last' = [tool |-> tool, args |-> args, fault |-> fault, check |-> out.check,
                resp |-> out.resp, steps |-> out.steps]
    /\ UNCHANGED <<mode, others>>

ReadFile(file_path, offset, limit, fault) ==
    \E out \in {read_file(file_path, offset, limit, fault, files, session_approvals, mode)} :
        Returned("read_file", [path |-> file_path, offset |-> offset, limit |-> limit],
                 fault, out)

WriteFile(file_path, content, create_backup, fault) ==
    \E out \in {write_file(file_path, content, create_backup, fault, files,
                         session_approvals, mode)} :
        Returned("write_file",
                 [path |-> file_path, content |-> content, create_backup |-> create_backup],
                 fault, out)

EditFile(file_path, old_string, new_string, replace_all, fault) ==
    \E out \in {edit_file(file_path, old_string, new_string, replace_all, fault, files,
                        session_approvals, mode)} :
        Returned("edit_file",
                 [path |-> file_path, old_string |-> old_string, new_string |-> new_string,
                  replace_all |-> replace_all],
                 fault, out)

DeleteFile(file_path, fault) ==
    \E out \in {delete_file(file_path, fault, files, session_approvals, mode)} :
        Returned("delete_file", [path |-> file_path], fault, out)

(***************************************************************************)
(* Spec: the PermissionManager under direct calls, approvals and the file  *)
(* tools that consult it, for every mode.                                  *)
(***************************************************************************)
CheckPaths == {P_blk, P_dots, P_sx, P_req, P_oth}
ApproveKeys == {<<"read", P_blk>>, <<"write", P_blk>>, <<"delete", P_blk>>,
                <<"write", P_req>>, <<"write", P_oth>>}
ToolPaths == {P_blk, P_req, P_oth}

Next ==
    \/ \E p \in CheckPaths, op \in Ops, a \in BOOLEAN : CheckFileAccess(p, op, a)
    \/ \E k \in ApproveKeys : Approve(k[1], k[2])
    \/ \E k \in ApproveKeys : Revoke(k[1], k[2])
    \/ \E p \in ToolPaths : ReadFile(p, Nothing, Nothing, "none")
    \/ \E p \in ToolPaths : WriteFile(p, <<"a">>, Some(FALSE), "none")
    \/ \E p \in ToolPaths : DeleteFile(p, "none")

Spec == Init /\ [][Next]_vars

(***************************************************************************)
(* SpecFiles: the file tools on a safe path and on an approval-required    *)
(* path, with the faults of the environment.                               *)
(***************************************************************************)
InitFiles ==
    /\ mode = "moderate"
    /\ recovery_enabled = TRUE
    /\ strategies = NoKw
    /\ Constructed

EditPaths == {P_safe, P_req}
WriteTexts == {<<"a", "a">>, <<"a">>}

NextFiles ==
    \/ \E p \in EditPaths \cup {<<>>}, c \in WriteTexts, b \in {Nothing, Some(FALSE)},
          f \in {"none", "copy", "open", "write"} : WriteFile(p, c, b, f)
    \/ \E p \in EditPaths, n \in {<<"b">>, <<"a", "b">>}, ra \in BOOLEAN,
          f \in {"none", "copy", "write"} : EditFile(p, <<"a">>, n, ra, f)
    \/ \E p \in EditPaths, f \in {"none", "unlink"} : DeleteFile(p, f)

SpecFiles == InitFiles /\ [][NextFiles]_vars

(***************************************************************************)
(* SpecRoundTrip: write_file and read_file on one writable path, with      *)
(* every content over a small alphabet that has a space and both line      *)
(* terminators.                                                            *)
(***************************************************************************)
RoundTripAlphabet == {"a", " ", "\n", "\r"}
RoundTripTexts == UNION {[1..n -> RoundTripAlphabet] : n \in 0..MaxLen}

NextRoundTrip ==
    \/ \E c \in RoundTripTexts : WriteFile(P_safe, c, Nothing, "none")
    \/ \E o \in {Nothing, Some(2)} : ReadFile(P_safe, o, Nothing, "none")

SpecRoundTrip == InitFiles /\ [][NextRoundTrip]_vars

(***************************************************************************)
(* SpecRecovery: the ErrorRecoverySystem under any sequence of             *)
(* should_retry, handle_error and reset_retry_count calls.                 *)
(***************************************************************************)
ConfiguredStrategies ==
    [timeout |-> [action |-> "increase_timeout", timeout_multiplier |-> <<2, 1>>],
     network_error |-> [action |-> "exponential_backoff", backoff_base |-> 3,
                        backoff_max |-> 20],
     unknown |-> [action |-> "report_and_ask"]]

StrategyTables == {NoKw, ConfiguredStrategies}

ErrorInputs ==
    {[error |-> TRUE, error_type |-> "network_error", retryable |-> TRUE,
      retry_strategy |-> "exponential_backoff"],
     create_error_response(ValidationError("invalid", None, NoKw)),
     [error |-> TRUE, error_type |-> "timeout", retryable |-> TRUE, retry_strategy |-> None],
     [error_type |-> "unknown", retryable |-> TRUE],
     [error_type |-> "rate_limit", retryable |-> TRUE, retry_strategy |-> "retry_later"],
     [error_type |-> "rate_limit", retry_strategy |-> "wait_and_retry",
      details |-> [retry_after_seconds |-> 7]],
     NoKw}

Contexts ==
    {NoKw, [operation_id |-> "op1"],
     [operation_id |-> "op2", timeout |-> 10, operation |-> "bash"]}

InitRecovery ==
    /\ mode = "moderate"
    /\ recovery_enabled \in BOOLEAN
    /\ strategies \in StrategyTables
    /\ Constructed

unrelated == <<mode, session_approvals, files, recovery_enabled, strategies,
               background_jobs, used_ids, read_once, calls>>

ShouldRetry(error, operation_id) ==
    /\ last' = [tool |-> "should_retry",
                args |-> [error |-> error, operation_id |-> operation_id],
                fault |-> "none", check |-> "skipped",
                resp |-> [returned |->
                             should_retry(error, operation_id, recovery_enabled,
                                          retry_counts)]]
    /\ UNCHANGED <<retry_counts, issued, unrelated>>

HandleError(error, operation_id, context) ==
    \E r \in {handle_error(error, operation_id, context, recovery_enabled, strategies,
                           retry_counts)} :
        /\ retry_counts' = r.counts
        /\ issued' = IF r.directive.action # "fail"
                     THEN [issued EXCEPT ![operation_id] = @ + 1]
                     ELSE issued
        /\ last' = [tool |-> "handle_error",
                    args |-> [error |-> error, operation_id |-> operation_id,
                              context |-> context],
                    fault |-> "none", check |-> "skipped", resp |-> r.directive]
        /\ UNCHANGED unrelated

ResetRetryCount(operation_id) ==
    /\ retry_counts' = reset_retry_count(operation_id, retry_counts)
    /\ issued' = [issued EXCEPT ![operation_id] = 0]
    /\ last' = [tool |-> "reset_retry_count", args |-> [operation_id |-> operation_id],
                fault |-> "none", check |-> "skipped", resp |-> NoKw]
    /\ UNCHANGED unrelated

NextRecovery ==
    \/ \E e \in ErrorInputs, id \in OpIds : ShouldRetry(e, id)
    \/ \E e \in ErrorInputs, id \in OpIds, c \in Contexts : HandleError(e, id, c)
    \/ \E id \in OpIds : ResetRetryCount(id)

SpecRecovery == InitRecovery /\ [][NextRecovery]_vars

(***************************************************************************)
(* SpecBackoff: _execute_strategy applied to every strategy, with the      *)
(* ledger and the configured strategies drawn from small sets.             *)
(***************************************************************************)
MaxRetryCount == 7

BackoffTables ==
    StrategyTables \cup
        {[network_error |-> [action |-> "exponential_backoff", backoff_base |-> 2,
                             backoff_max |-> 30]]}

Ledgers == {NoKw} \cup {("op1" :> n) : n \in 0..MaxRetryCount}

InitBackoff ==
    /\ mode = "moderate"
    /\ recovery_enabled = TRUE
    /\ strategies \in BackoffTables
    /\ session_approvals = {}
    /\ files = [p \in FsPaths |-> IF p \in InitialFiles THEN <<"a">> ELSE NoFile]
    /\ last = NoCall
    /\ retry_counts \in Ledgers
    /\ issued = [id \in OpIds |-> 0]
    /\ background_jobs = NoKw
    /\ used_ids = {}
    /\ read_once = {}
    /\ calls = NoKw

ExecuteStrategy(strategy, error, context) ==
    /\ last' = [tool |-> "execute_strategy",
                args |-> [strategy |-> strategy, error |-> error, context |-> context],
                fault |-> "none", check |-> "skipped",
                resp |-> execute_strategy(strategy, error, context, strategies,
                                          retry_counts)]
    /\ UNCHANGED <<retry_counts, issued, unrelated>>

NextBackoff ==
    \E st \in RetryStrategy, e \in ErrorInputs, c \in Contexts : ExecuteStrategy(st, e, c)

SpecBackoff == InitBackoff /\ [][NextBackoff]_vars

(***************************************************************************)
(* shell_tools.py: ShellTools.  A command is a text.  A background job is  *)
(* [command, pid, returncode, stdout]: returncode is Nothing while the     *)
(* process runs and Some(code) once the event loop has seen it exit.  Job  *)
(* ids are the first eight hex digits of a uuid4, taken as never issued    *)
(* twice; they are the numbers 1..MaxJobs here.                            *)
(***************************************************************************)
blocked_commands == << <<"k">> >>
require_approval_commands == << <<"s">> >>

default_timeout == 120
max_timeout == 600

RECURSIVE lstrip(_)
lstrip(s) == IF s # <<>> /\ Head(s) \in Whitespace THEN lstrip(Tail(s)) ELSE s

RECURSIVE Word(_)
\* the characters of a text up to its first whitespace
Word(s) == IF s = <<>> \/ Head(s) \in Whitespace THEN <<>> ELSE <<Head(s)>> \o Word(Tail(s))

\* command.split(): only whether it is empty and its first word are used
FirstWord(command) == Word(lstrip(command))

\* validate_command(command) as bash calls it, with no allowed_commands
validate_command(command) ==
    IF command = <<>>
    THEN [raised |-> TRUE,
          exc |-> ValidationError("Command must be a non-empty string", "command", NoKw)]
    ELSE [raised |-> FALSE, exc |-> None]

check_command(command) ==
    IF \E i \in DOMAIN blocked_commands :
           \/ Count(command, blocked_commands[i]) > 0
           \/ IsPrefix(blocked_commands[i], command)
    THEN [raised |-> TRUE,
          exc |-> PermissionError("Command blocked", <<>>,
                                  [details |-> [command |-> command]])]
    ELSE IF /\ FirstWord(command) # <<>>
            /\ \E i \in DOMAIN require_approval_commands :
                   FirstWord(command) = require_approval_commands[i]
    THEN [raised |-> TRUE,
          exc |-> PermissionError("Command requires user approval", <<>>,
                                  [details |-> [command |-> command],
                                   suggestions |-> <<"Approve the command when prompted">>])]
    ELSE [raised |-> FALSE, exc |-> None]

TimeoutSuggestions == <<"Increase timeout value", "Check if the operation is too slow">>

\* TimeoutError(message, timeout=None, kwargs)
TimeoutError(message, timeout, kwargs) ==
    SuperInit(
        ToolError(message, "timeout",
                  IF timeout # 0 THEN [timeout_seconds |-> timeout] @@ PopDetails(kwargs)
                  ELSE PopDetails(kwargs),
                  TimeoutSuggestions, TRUE, "increase_timeout"),
        Rest(kwargs))

ShellFaults == {"none", "spawn", "timeout"}

\* _execute_foreground that returns the timeout error without ending the process
execute_foreground_no_kill(command, timeout, fault, exit_code) ==
    IF fault = "spawn"
    THEN [resp |-> create_error_response(OSError("cannot start process")), steps |-> <<>>]
    ELSE IF fault = "timeout"
    THEN [resp |-> create_error_response(TimeoutError("Command timed out", timeout, NoKw)),
          steps |-> <<"spawn", "communicate">>]
    ELSE [resp |-> [success |-> exit_code = 0, command |-> command,
                    exit_code |-> exit_code, stdout |-> <<>>, stderr |-> <<>>,
                    timed_out |-> FALSE],
          steps |-> <<"spawn", "communicate">>]

\* _execute_foreground: [resp, steps].  The process exits with exit_code
\* unless it fails to start or outlives the timeout; steps are what was done
\* to the process, in order.
execute_foreground(command, timeout, fault, exit_code) ==
    IF fault = "spawn"
    THEN [resp |-> create_error_response(OSError("cannot start process")), steps |-> <<>>]
    ELSE IF fault = "timeout"
    THEN [resp |-> create_error_response(TimeoutError("Command timed out", timeout, NoKw)),
          steps |-> <<"spawn", "communicate", "kill", "wait">>]
    ELSE [resp |-> [success |-> exit_code = 0, command |-> command,
                    exit_code |-> exit_code, stdout |-> <<>>, stderr |-> <<>>,
                    timed_out |-> FALSE],
          steps |-> <<"spawn", "communicate">>]

\* _execute_background: [resp, jobs, steps]
execute_background(command, fault, job_id, jobs) ==
    IF fault = "spawn"
    THEN [resp |-> create_error_response(OSError("cannot start process")), jobs |-> jobs,
          steps |-> <<>>]
    ELSE [resp |-> [success |-> TRUE, command |-> command, job_id |-> job_id,
                    pid |-> job_id, background |-> TRUE],
          jobs |-> (job_id :> [command |-> command, pid |-> job_id,
                               returncode |-> Nothing, stdout |-> <<>>]) @@ jobs,
          steps |-> <<"spawn", "add_job">>]

\* timeout or default_timeout, capped at max_timeout
effective_timeout(timeout) ==
    LET given == IF timeout # Nothing /\ timeout[1] # 0 THEN timeout[1] ELSE default_timeout
    IN IF given > max_timeout THEN max_timeout ELSE given

\* bash(command, timeout, background): [resp, jobs, check, steps]
bash(command, timeout, background, fault, exit_code, job_id, jobs) ==
    LET v == validate_command(command)
        perm == check_command(command)
        fg == execute_foreground(command, effective_timeout(timeout), fault, exit_code)
        bg == execute_background(command, fault, job_id, jobs)
    IN IF v.raised
       THEN [resp |-> create_error_response(v.exc), jobs |-> jobs, check |-> "skipped",
             steps |-> <<"validate">>]
       ELSE IF perm.raised
       THEN [resp |-> create_error_response(perm.exc), jobs |-> jobs, check |-> "denied",
             steps |-> <<"validate", "check">>]
       ELSE IF background
       THEN [resp |-> bg.resp, jobs |-> bg.jobs, check |-> "allowed",
             steps |-> <<"validate", "check">> \o bg.steps]
       ELSE [resp |-> fg.resp, jobs |-> jobs, check |-> "allowed",
             steps |-> <<"validate", "check">> \o fg.steps]

JobNotFound == ToolError("Job not found", "unknown", NoDetails, <<>>, FALSE, None)

\* get_job_status that leaves a completed job in the table
get_job_status_keep(job_id, jobs) ==
    IF job_id \notin DOMAIN jobs
    THEN [resp |-> create_error_response(JobNotFound), jobs |-> jobs]
    ELSE IF jobs[job_id].returncode = Nothing
    THEN [resp |-> [success |-> TRUE, job_id |-> job_id, status |-> "running",
                    pid |-> jobs[job_id].pid],
          jobs |-> jobs]
    ELSE [resp |-> [success |-> jobs[job_id].returncode[1] = 0, job_id |-> job_id,
                    status |-> "completed", exit_code |-> jobs[job_id].returncode[1],
                    stdout |-> jobs[job_id].stdout, stderr |-> <<>>],
          jobs |-> jobs]

\* get_job_status(job_id): [resp, jobs]
get_job_status(job_id, jobs) ==
    IF job_id \notin DOMAIN jobs
    THEN [resp |-> create_error_response(JobNotFound), jobs |-> jobs]
    ELSE LET process == jobs[job_id]
         IN IF process.returncode = Nothing
            THEN [resp |-> [success |-> TRUE, job_id |-> job_id, status |-> "running",
                            pid |-> process.pid],
                  jobs |-> jobs]
            ELSE [resp |-> [success |-> process.returncode[1] = 0, job_id |-> job_id,
                            status |-> "completed", exit_code |-> process.returncode[1],
                            stdout |-> process.stdout, stderr |-> <<>>],
                  jobs |-> [id \in DOMAIN jobs \ {job_id} |-> jobs[id]]]

\* kill_job(job_id): [resp, jobs].  process.kill() on a process whose
\* transport has already been closed raises ProcessLookupError (fault
\* "lookup"), which can only happen once the process has exited.
kill_job(job_id, fault, jobs) ==
    IF job_id \notin DOMAIN jobs
    THEN [resp |-> create_error_response(JobNotFound), jobs |-> jobs]
    ELSE IF fault = "lookup" /\ jobs[job_id].returncode # Nothing
    THEN [resp |-> create_error_response(PyException("ProcessLookupError", "")),
          jobs |-> jobs]
    ELSE [resp |-> [success |-> TRUE, job_id |-> job_id, message |-> "Job killed"],
          jobs |-> [id \in DOMAIN jobs \ {job_id} |-> jobs[id]]]

(***************************************************************************)
(* SpecJobs: ShellTools under bash calls in the foreground and background, *)
(* processes exiting on their own, status queries and kills.               *)
(***************************************************************************)
JobIds == 1..MaxJobs
\* the ids a caller may ask about: every id bash can issue, and one it cannot
AskedIds == JobIds \cup {0}
Commands == {<<>>, <<"l">>, <<"k">>, <<"s", " ", "l">>}
Timeouts == {Nothing, Some(1), Some(700)}
ExitCodes == {0, 1}

nonshell == <<mode, session_approvals, files, recovery_enabled, strategies,
              retry_counts, issued, calls>>

Bash(command, timeout, background, fault, exit_code) ==
    /\ background => fault # "timeout"
    /\ \E job_id \in IF background THEN JobIds \ used_ids ELSE {0} :
       \E out \in {bash(command, timeout, background, fault, exit_code, job_id,
                        background_jobs)} :
        /\ background_jobs' = out.jobs
        /\ used_ids' = used_ids \cup (DOMAIN out.jobs)
        /\ last' = [tool |-> "bash",
                    args |-> [command |-> command, timeout |-> timeout,
                              background |-> background],
                    fault |-> fault, check |-> out.check, resp |-> out.resp,
                    steps |-> out.steps]
    /\ UNCHANGED <<read_once, nonshell>>

\* A background process exits by itself and the event loop records its code
ProcessExit(job_id, code, out) ==
    /\ job_id \in DOMAIN background_jobs
    /\ background_jobs[job_id].returncode = Nothing
    /\ background_jobs' = [background_jobs EXCEPT ![job_id].returncode = Some(code),
                                                  ![job_id].stdout = out]
    /\ last' = [tool |-> "process_exit", args |-> [job_id |-> job_id],
                fault |-> "none", check |-> "skipped", resp |-> NoKw, steps |-> <<>>]
    /\ UNCHANGED <<used_ids, read_once, nonshell>>

GetJobStatus(job_id) ==
    \E out \in {get_job_status(job_id, background_jobs)} :
        /\ background_jobs' = out.jobs
        /\ read_once' = IF "status" \in DOMAIN out.resp /\ out.resp.status = "completed"
                        THEN read_once \cup {job_id} ELSE read_once
        /\ last' = [tool |-> "get_job_status", args |-> [job_id |-> job_id],
                    fault |-> "none", check |-> "skipped", resp |-> out.resp,
                    steps |-> <<>>]
        /\ UNCHANGED <<used_ids, nonshell>>

KillJob(job_id, fault) ==
    \E out \in {kill_job(job_id, fault, background_jobs)} :
        /\ background_jobs' = out.jobs
        /\ last' = [tool |-> "kill_job", args |-> [job_id |-> job_id],
                    fault |-> fault, check |-> "skipped", resp |-> out.resp,
                    steps |-> <<>>]
        /\ UNCHANGED <<used_ids, read_once, nonshell>>

InitJobs ==
    /\ mode = "moderate"
    /\ recovery_enabled = TRUE
    /\ strategies = NoKw
    /\ Constructed

NextJobs ==
    \/ \E c \in Commands, t \in Timeouts, b \in BOOLEAN, f \in ShellFaults, x \in ExitCodes :
           Bash(c, t, b, f, x)
    \/ \E id \in JobIds, x \in ExitCodes, o \in {<<>>, <<"a">>} : ProcessExit(id, x, o)
    \/ \E id \in AskedIds : GetJobStatus(id)
    \/ \E id \in AskedIds, f \in {"none", "lookup"} : KillJob(id, f)

SpecJobs == InitJobs /\ [][NextJobs]_vars

(***************************************************************************)
(* search_tools.py: SearchTools.  A directory lists its entries in an      *)
(* order the file system chooses: `order` gives, for each directory at or   *)
(* below the search path, the sequence in which it lists its entries.      *)
(* Contexts lines, regular expressions, case folding, file_pattern and     *)
(* modification times are left out; exclude_patterns is the empty default. *)
(***************************************************************************)
grep_max_results == 1000
find_max_results == 1000

\* the files and directories the file system holds
Entries(fs) == {p \in DOMAIN fs : fs[p] # NoFile} \cup (Dirs \ {<<>>})

\* the entries below a directory, at any depth
Below(fs, dir) == {e \in Entries(fs) : Len(e) > Len(dir) /\ SubSeq(e, 1, Len(dir)) = dir}

RECURSIVE Orders(_)
\* the orders in which the entries of a set can be listed
Orders(S) ==
    IF S = {} THEN {<<>>}
    ELSE UNION {{<<e>> \o o : o \in Orders(S \ {e})} : e \in S}

\* the entries of a directory
Children(fs, dir) == {e \in Entries(fs) : Front(e) = dir}

RECURSIVE ListingsOf(_, _)
\* the ways the directories of a set can each list their entries
ListingsOf(fs, dirs) ==
    IF dirs = {} THEN {NoKw}
    ELSE LET d == CHOOSE d \in dirs : TRUE
         IN {(d :> o) @@ r : o \in Orders(Children(fs, d)), r \in ListingsOf(fs, dirs \ {d})}

\* Path.iterdir()
iterdir(fs, dir, order) == order[dir]

RECURSIVE rglob_dirs(_, _, _)
\* Path.rglob("*"): the entries of the directory, then those of each of its
\* subdirectories in turn
rglob_dirs(fs, dirs, order) ==
    IF dirs = <<>> THEN <<>>
    ELSE LET items == iterdir(fs, Head(dirs), order)
             subdirs == SelectSeq(items, LAMBDA e : e \in Dirs)
         IN items \o rglob_dirs(fs, subdirs \o Tail(dirs), order)

rglob(fs, dir, order) == rglob_dirs(fs, <<dir>>, order)

\* InputValidator.validate_pattern(pattern, "glob")
validate_pattern(pattern) ==
    IF pattern = <<>>
    THEN [raised |-> TRUE,
          exc |-> ValidationError("Pattern must be a non-empty string", "pattern", NoKw)]
    ELSE [raised |-> FALSE, exc |-> None]

RECURSIVE grep_lines(_, _, _, _, _, _)
\* the loop over the lines of one file, from line_num on; it breaks when the
\* results have reached max_results
grep_lines(lines, line_num, file_path, pattern, acc, max_results) ==
    IF line_num > Len(lines) THEN acc
    ELSE IF Count(lines[line_num], pattern) > 0
    THEN LET acc1 == [acc EXCEPT
                         !.total_matches = @ + 1,
                         !.results = Append(@, [file |-> Join(file_path),
                                                line_number |-> line_num,
                                                line |-> rstrip(lines[line_num])])]
         IN IF Len(acc1.results) >= max_results THEN acc1
            ELSE grep_lines(lines, line_num + 1, file_path, pattern, acc1, max_results)
    ELSE grep_lines(lines, line_num + 1, file_path, pattern, acc, max_results)

RECURSIVE grep_files(_, _, _, _, _, _)
\* the loop over the files: a file the permission check refuses is skipped
grep_files(files_to_search, pattern, acc, max_results, fs, md) ==
    IF files_to_search = <<>> THEN acc
    ELSE LET file_path == Head(files_to_search)
             perm == check_file_access(file_path, "read", FALSE, acc.approvals, md)
         IN IF perm.raised
            THEN grep_files(Tail(files_to_search), pattern, acc, max_results, fs, md)
            ELSE LET acc1 == grep_lines(readlines(universal_newlines(fs[file_path]), <<>>),
                                        1, file_path, pattern,
                                        [acc EXCEPT !.approvals = perm.approvals],
                                        max_results)
                 IN IF Len(acc1.results) >= max_results THEN acc1
                    ELSE grep_files(Tail(files_to_search), pattern, acc1, max_results,
                                    fs, md)

\* grep(pattern, path, max_results=max_results): a literal, case-sensitive
\* search
grep(pattern, path, max_results, order, fs, approvals, md) ==
    LET v == validate_file_path(path, TRUE, fs)
        search_path == v.path
        vp == validate_pattern(pattern)
        max == IF max_results # Nothing /\ max_results[1] # 0 THEN max_results[1]
               ELSE grep_max_results
        files_to_search == IF IsFile(fs, search_path) THEN <<search_path>>
                           ELSE SelectSeq(rglob(fs, search_path, order),
                                          LAMBDA f : IsFile(fs, f))
        acc == grep_files(files_to_search, pattern,
                          [results |-> <<>>, total_matches |-> 0, approvals |-> approvals],
                          max, fs, md)
    IN IF v.raised THEN Invalid(create_error_response(v.exc), fs, approvals)
       ELSE IF vp.raised THEN Invalid(create_error_response(vp.exc), fs, approvals)
       ELSE Outcome([success |-> TRUE, pattern |-> pattern,
                     search_path |-> Join(search_path),
                     total_matches |-> acc.total_matches,
                     results_returned |-> Len(acc.results),
                     truncated |-> acc.total_matches > Len(acc.results),
                     matches |-> acc.results],
                    fs, acc.approvals)

RECURSIVE GlobMatch(_, _)
\* fnmatch of a name against a pattern whose only wildcard is "*"
GlobMatch(pattern, name) ==
    IF pattern = <<>> THEN name = <<>>
    ELSE IF Head(pattern) = "*"
    THEN GlobMatch(Tail(pattern), name) \/ (name # <<>> /\ GlobMatch(pattern, Tail(name)))
    ELSE name # <<>> /\ Head(name) = Head(pattern) /\ GlobMatch(Tail(pattern), Tail(name))

\* Path.match(pattern) for a pattern of one component
path_match(item, pattern) == GlobMatch(pattern, Last(item))

\* the entry find reports for an item
find_match(item, depth, fs) ==
    [path |-> Join(item), name |-> Last(item), is_file |-> IsFile(fs, item),
     is_dir |-> item \in Dirs,
     size |-> IF IsFile(fs, item) THEN Len(fs[item]) ELSE 0, depth |-> depth]

RECURSIVE search_recursive(_, _, _, _)
RECURSIVE search_items(_, _, _, _)
\* search_recursive(current_path, depth) with the matches found so far; q is
\* [pattern, file_type, max_depth, max_results, fs, order]
search_recursive(current_path, depth, matches, q) ==
    IF q.max_depth # Nothing /\ q.max_depth[1] # 0 /\ depth > q.max_depth[1] THEN matches
    ELSE IF Len(matches) >= q.max_results THEN matches
    ELSE search_items(iterdir(q.fs, current_path, q.order), depth, matches, q)

\* the loop over current_path.iterdir(), from the items left on
search_items(items, depth, matches, q) ==
    IF items = <<>> THEN matches
    ELSE LET item == Head(items)
             matches1 == Append(matches, find_match(item, depth, q.fs))
         IN IF q.file_type = Some("f") /\ ~IsFile(q.fs, item)
            THEN search_items(Tail(items), depth, matches, q)
            ELSE IF q.file_type = Some("d") /\ item \notin Dirs
            THEN search_items(Tail(items), depth, matches, q)
            ELSE IF q.pattern # <<"*">> /\ ~path_match(item, q.pattern)
            THEN search_items(Tail(items), depth,
                              IF item \in Dirs
                              THEN search_recursive(item, depth + 1, matches, q)
                              ELSE matches,
                              q)
            ELSE IF Len(matches1) >= q.max_results THEN matches1
            ELSE search_items(Tail(items), depth,
                              IF item \in Dirs
                              THEN search_recursive(item, depth + 1, matches1, q)
                              ELSE matches1,
                              q)

\* find that searches without its type filter
find_any_type(name, path, file_type, max_depth, max_results, order, fs, approvals, md) ==
    LET v == validate_file_path(path, TRUE, fs)
        search_path == v.path
        perm == check_file_access(search_path, "read", FALSE, approvals, md)
        max == IF max_results # Nothing /\ max_results[1] # 0 THEN max_results[1]
               ELSE find_max_results
        pattern == IF name # Nothing /\ name[1] # <<>> THEN name[1] ELSE <<"*">>
        matches == search_recursive(search_path, 0, <<>>,
                                    [pattern |-> pattern, file_type |-> Nothing,
                                     max_depth |-> max_depth, max_results |-> max,
                                     fs |-> fs, order |-> order])
    IN IF v.raised THEN Invalid(create_error_response(v.exc), fs, approvals)
       ELSE IF search_path \notin Dirs
       THEN Invalid(create_error_response(
                        ToolError("Path must be a directory", "unknown", NoDetails,
                                  <<>>, FALSE, None)),
                    fs, approvals)
       ELSE IF perm.raised THEN Denied(create_error_response(perm.exc), fs, perm.approvals)
       ELSE Outcome([success |-> TRUE, name_pattern |-> pattern,
                     search_path |-> Join(search_path), file_type |-> file_type,
                     max_depth |-> max_depth, total_matches |-> Len(matches),
                     truncated |-> Len(matches) >= max, matches |-> matches],
                    fs, perm.approvals)

\* find(name, path, file_type, max_depth, max_results)
find(name, path, file_type, max_depth, max_results, order, fs, approvals, md) ==
    LET v == validate_file_path(path, TRUE, fs)
        search_path == v.path
        perm == check_file_access(search_path, "read", FALSE, approvals, md)
        max == IF max_results # Nothing /\ max_results[1] # 0 THEN max_results[1]
               ELSE find_max_results
        pattern == IF name # Nothing /\ name[1] # <<>> THEN name[1] ELSE <<"*">>
        matches == search_recursive(search_path, 0, <<>>,
                                    [pattern |-> pattern, file_type |-> file_type,
                                     max_depth |-> max_depth, max_results |-> max,
                                     fs |-> fs, order |-> order])
    IN IF v.raised THEN Invalid(create_error_response(v.exc), fs, approvals)
       ELSE IF search_path \notin Dirs
       THEN Invalid(create_error_response(
                        ToolError("Path must be a directory", "unknown", NoDetails,
                                  <<>>, FALSE, None)),
                    fs, approvals)
       ELSE IF perm.raised THEN Denied(create_error_response(perm.exc), fs, perm.approvals)
       ELSE Outcome([success |-> TRUE, name_pattern |-> pattern,
                     search_path |-> Join(search_path), file_type |-> file_type,
                     max_depth |-> max_depth, total_matches |-> Len(matches),
                     truncated |-> Len(matches) >= max, matches |-> matches],
                    fs, perm.approvals)

glob_max_results == 1000

\* any(part.startswith(".") for part in file_path.parts)
is_hidden(path) == \E i \in 1..Len(path) : path[i] # <<>> /\ Head(path[i]) = "."

RECURSIVE glob_items(_, _, _, _)
\* the loop over search_path.rglob(pattern): it breaks when the matches have
\* reached max_results
glob_items(items, matches, max_results, fs) ==
    IF items = <<>> THEN matches
    ELSE IF is_hidden(Head(items)) THEN glob_items(Tail(items), matches, max_results, fs)
    ELSE LET item == Head(items)
             matches1 == Append(matches,
                                [path |-> Join(item), name |-> Last(item),
                                 is_file |-> IsFile(fs, item), is_dir |-> item \in Dirs,
                                 size |-> IF IsFile(fs, item) THEN Len(fs[item]) ELSE 0])
         IN IF Len(matches1) >= max_results THEN matches1
            ELSE glob_items(Tail(items), matches1, max_results, fs)

\* glob(pattern, path, max_results) for a pattern of one component; the
\* matches stay in the order found, the final sort being by modification time
glob(pattern, path, max_results, order, fs, approvals, md) ==
    LET v == validate_file_path(path, TRUE, fs)
        search_path == v.path
        vp == validate_pattern(pattern)
        perm == check_file_access(search_path, "read", FALSE, approvals, md)
        max == IF max_results # Nothing /\ max_results[1] # 0 THEN max_results[1]
               ELSE glob_max_results
        matches == glob_items(SelectSeq(rglob(fs, search_path, order),
                                        LAMBDA e : path_match(e, pattern)),
                              <<>>, max, fs)
    IN IF v.raised THEN Invalid(create_error_response(v.exc), fs, approvals)
       ELSE IF vp.raised THEN Invalid(create_error_response(vp.exc), fs, approvals)
       ELSE IF search_path \notin Dirs
       THEN Invalid(create_error_response(
                        ToolError("Path must be a directory", "unknown", NoDetails,
                                  <<>>, FALSE, None)),
                    fs, approvals)
       ELSE IF perm.raised THEN Denied(create_error_response(perm.exc), fs, perm.approvals)
       ELSE Outcome([success |-> TRUE, pattern |-> pattern,
                     search_path |-> Join(search_path), total_matches |-> Len(matches),
                     truncated |-> Len(matches) >= max, matches |-> matches],
                    fs, perm.approvals)

\* the characters of the names of the model, in code point order
CodePoints == <<"*", ".", "K", "a", "b", "c", "d", "f", "k", "o", "p", "r", "s", "u", "w", "x">>
CodePoint(c) == CHOOSE i \in DOMAIN CodePoints : CodePoints[i] = c

RECURSIVE NameBefore(_, _)
\* a < b for two names, as Python compares strings
NameBefore(a, b) ==
    IF b = <<>> THEN FALSE
    ELSE IF a = <<>> THEN TRUE
    ELSE IF Head(a) # Head(b) THEN CodePoint(Head(a)) < CodePoint(Head(b))
    ELSE NameBefore(Tail(a), Tail(b))

\* list_directory(directory): the entries of the directory, sorted, the
\* files apart from the directories
list_directory(directory, fs, approvals, md) ==
    LET v == validate_file_path(directory, TRUE, fs)
        dir_path == v.path
        perm == check_file_access(dir_path, "read", FALSE, approvals, md)
        items == SortSeq(CHOOSE o \in Orders(Children(fs, dir_path)) : TRUE,
                         LAMBDA a, b : NameBefore(Last(a), Last(b)))
        item_info(item) == [name |-> Last(item), path |-> Join(item),
                            size |-> IF IsFile(fs, item) THEN Len(fs[item]) ELSE 0]
        file_items == SelectSeq(items, LAMBDA e : e \notin Dirs)
        dir_items == SelectSeq(items, LAMBDA e : e \in Dirs)
        files_found == [i \in DOMAIN file_items |-> item_info(file_items[i])]
        directories == [i \in DOMAIN dir_items |-> item_info(dir_items[i])]
    IN IF v.raised THEN Invalid(create_error_response(v.exc), fs, approvals)
       ELSE IF dir_path \notin Dirs
       THEN Invalid(create_error_response(
                        ToolError("Not a directory", "unknown", NoDetails, <<>>, FALSE,
                                  None)),
                    fs, approvals)
       ELSE IF perm.raised THEN Denied(create_error_response(perm.exc), fs, perm.approvals)
       ELSE Outcome([success |-> TRUE, directory |-> Join(dir_path),
                     total_items |-> Len(files_found) + Len(directories),
                     files |-> files_found, directories |-> directories],
                    fs, perm.approvals)

(***************************************************************************)
(* web_tools.py: WebTools, with validate_url and check_url_access.  A URL  *)
(* is a sequence of parts: the scheme with its "://", the host, and then   *)
(* what follows the host.  The remote end answers as `fault` says:         *)
(* "timeout" and "network" make the request raise, "too_large" gives a     *)
(* content-length beyond max_content_size_mb.                              *)
(***************************************************************************)
web_fetch_timeout == 30

web_blocked == <<"bad.com">>
web_require_approval == <<"ask.com">>

Schemes == {"http://", "https://"}
Hosts == {"ok.com", "bad.com", "ask.com", "localhost"}

\* url_pattern.match(url)
url_pattern_match(url) ==
    /\ Len(url) >= 2
    /\ url[1] \in Schemes
    /\ url[2] \in Hosts
    /\ Len(url) >= 3 => (url[3] \in {"/", "/x", "?q"} /\ Len(url) = 3)

\* InputValidator.validate_url
validate_url(url) ==
    IF url = <<>>
    THEN [raised |-> TRUE,
          exc |-> ValidationError("URL must be a non-empty string", "url", NoKw)]
    ELSE IF ~url_pattern_match(url)
    THEN [raised |-> TRUE,
          exc |-> ValidationError("Invalid URL format", "url", [details |-> [url |-> url]])]
    ELSE [raised |-> FALSE, exc |-> None]

\* "domain in url"
InUrl(domain, url) == \E i \in DOMAIN url : url[i] = domain

\* PermissionManager.check_url_access
check_url_access(url) ==
    IF \E i \in DOMAIN web_blocked : InUrl(web_blocked[i], url)
    THEN [raised |-> TRUE,
          exc |-> PermissionError("URL domain blocked", <<>>,
                                  [details |->
                                      [url |-> url,
                                       blocked_domain |->
                                           web_blocked[CHOOSE i \in DOMAIN web_blocked :
                                               /\ InUrl(web_blocked[i], url)
                                               /\ \A j \in 1..(i - 1) :
                                                      ~InUrl(web_blocked[j], url)]]])]
    ELSE IF \E i \in DOMAIN web_require_approval : InUrl(web_require_approval[i], url)
    THEN [raised |-> TRUE,
          exc |-> PermissionError("URL requires user approval", <<>>,
                                  [details |-> [url |-> url]])]
    ELSE [raised |-> FALSE, exc |-> None]

NetworkSuggestions == <<"Check network connectivity", "Verify the URL is accessible">>

\* NetworkError(message, url=None, kwargs)
NetworkError(message, url, kwargs) ==
    SuperInit(
        ToolError(message, "network_error",
                  IF url # <<>> THEN [url |-> url] @@ PopDetails(kwargs)
                  ELSE PopDetails(kwargs),
                  NetworkSuggestions, TRUE, "exponential_backoff"),
        Rest(kwargs))

WebFaults == {"none", "timeout", "network", "too_large"}

\* web_fetch that sends the request before it checks the permission
web_fetch_request_first(url, timeout, fault, status_code, content) ==
    LET v == validate_url(url)
        perm == check_url_access(url)
    IN IF v.raised
       THEN [resp |-> create_error_response(v.exc), check |-> "skipped",
             steps |-> <<"validate">>]
       ELSE IF perm.raised
       THEN [resp |-> create_error_response(perm.exc), check |-> "denied",
             steps |-> <<"validate", "request", "check">>]
       ELSE [resp |-> [success |-> TRUE, url |-> url, status_code |-> status_code,
                       content |-> content, content_length |-> Len(content)],
             check |-> "allowed", steps |-> <<"validate", "request", "check">>]

\* web_fetch(url, timeout=timeout): [resp, check, steps]
web_fetch(url, timeout, fault, status_code, content) ==
    LET v == validate_url(url)
        perm == check_url_access(url)
        seconds == IF timeout # Nothing /\ timeout[1] # 0 THEN timeout[1]
                   ELSE web_fetch_timeout
    IN IF v.raised
       THEN [resp |-> create_error_response(v.exc), check |-> "skipped",
             steps |-> <<"validate">>]
       ELSE IF perm.raised
       THEN [resp |-> create_error_response(perm.exc), check |-> "denied",
             steps |-> <<"validate", "check">>]
       ELSE [check |-> "allowed", steps |-> <<"validate", "check", "request">>,
             resp |-> IF fault = "timeout"
                      THEN create_error_response(
                               TimeoutError("Request timed out", seconds, NoKw))
                      ELSE IF fault = "network"
                      THEN create_error_response(NetworkError("Network error", url, NoKw))
                      ELSE IF fault = "too_large"
                      THEN create_error_response(
                               NetworkError("Content too large", url, NoKw))
                      ELSE [success |-> TRUE, url |-> url, status_code |-> status_code,
                            content |-> content, content_length |-> Len(content)]]

\* web_search(query, max_results): a placeholder that finds nothing
web_search(query, max_results) ==
    [resp |-> [success |-> TRUE, query |-> query, results |-> <<>>,
               message |-> "Web search not yet fully implemented"],
     check |-> "skipped", steps |-> <<>>]

(***************************************************************************)
(* SpecSearch: grep and find over file systems drawn from a small set.     *)
(***************************************************************************)
SearchTexts == {<<"a">>, <<"\n", "a">>}

InitSearch ==
    /\ mode = "moderate"
    /\ recovery_enabled = TRUE
    /\ strategies = NoKw
    /\ session_approvals = {}
    /\ \E t \in SearchTexts \cup {NoFile}, n \in {<<"a">>, NoFile} :
           files = [p \in FsPaths |->
                       IF p = P_oth THEN t
                       ELSE IF p = P_nest THEN n
                       ELSE IF p \in InitialFiles THEN <<"a">> ELSE NoFile]
    /\ last = NoCall
    /\ retry_counts = NoKw
    /\ issued = [id \in OpIds |-> 0]
    /\ background_jobs = NoKw
    /\ used_ids = {}
    /\ read_once = {}
    /\ calls = NoKw

\* the orders in which the file system can list what lies below a path
ListingOrders(fs, path) ==
    IF normalize_path(path) \in Dirs \ {<<>>}
    THEN ListingsOf(fs, {d \in Dirs : IsPrefix(normalize_path(path), d)})
    ELSE {NoKw}

Grep(pattern, path, max_results, order) ==
    \E out \in {grep(pattern, path, max_results, order, files, session_approvals, mode)} :
        Returned("grep", [pattern |-> pattern, path |-> path,
                          max_results |-> max_results], "none", out)

Find(name, path, file_type, max_depth, max_results, order) ==
    \E out \in {find(name, path, file_type, max_depth, max_results, order, files,
                     session_approvals, mode)} :
        Returned("find", [name |-> name, path |-> path, file_type |-> file_type,
                          max_depth |-> max_depth, max_results |-> max_results],
                 "none", out)

SearchPaths == {<<c_o>>, <<c_r>>, P_oth, <<>>}
NamePatterns == {Nothing, Some(<<"f">>), Some(<<"d", "*">>)}
FileTypes == {Nothing, Some("f"), Some("d")}
ResultCaps == {Nothing, Some(1)}

NextSearch ==
    \E p \in SearchPaths : \E order \in ListingOrders(files, p) :
        \/ \E pt \in {<<"a">>, <<>>}, m \in ResultCaps : Grep(pt, p, m, order)
        \/ \E n \in NamePatterns, t \in FileTypes, d \in {Nothing, Some(1)},
              m \in ResultCaps : Find(n, p, t, d, m, order)

SpecSearch == InitSearch /\ [][NextSearch]_vars

(***************************************************************************)
(* SpecTools: every tool method of the server, each on a few arguments     *)
(* that make it pass, fail validation, be denied and fail in the           *)
(* operation itself.                                                       *)
(***************************************************************************)
Glob(pattern, path, max_results, order) ==
    \E out \in {glob(pattern, path, max_results, order, files, session_approvals, mode)} :
        Returned("glob", [pattern |-> pattern, path |-> path,
                          max_results |-> max_results], "none", out)

ListDirectory(directory) ==
    \E out \in {list_directory(directory, files, session_approvals, mode)} :
        Returned("list_directory", [path |-> directory], "none", out)

nonfile == <<mode, session_approvals, files, recovery_enabled, strategies, retry_counts,
             issued, background_jobs, used_ids, read_once, calls>>

WebFetch(url, timeout, fault, status_code, content) ==
    \E out \in {web_fetch(url, timeout, fault, status_code, content)} :
        /\ last' = [tool |-> "web_fetch", args |-> [url |-> url, timeout |-> timeout],
                    fault |-> fault, check |-> out.check, resp |-> out.resp,
                    steps |-> out.steps]
        /\ UNCHANGED nonfile

WebSearch(query, max_results) ==
    \E out \in {web_search(query, max_results)} :
        /\ last' = [tool |-> "web_search",
                    args |-> [query |-> query, max_results |-> max_results],
                    fault |-> "none", check |-> out.check, resp |-> out.resp,
                    steps |-> out.steps]
        /\ UNCHANGED nonfile

Urls ==
    {<<>>, <<"ftp://", "ok.com">>, <<"http://", "ok.com">>, <<"https://", "bad.com", "/x">>,
     <<"http://", "ask.com">>}

\* bash in the background, for the one job this specification starts
BashOnce(command, timeout, background, fault, exit_code) ==
    /\ background => used_ids = {}
    /\ Bash(command, timeout, background, fault, exit_code)

GlobListed(pattern, path, max_results) ==
    \E order \in ListingOrders(files, path) : Glob(pattern, path, max_results, order)

FindListed(name, path, file_type, max_depth, max_results) ==
    \E order \in ListingOrders(files, path) :
        Find(name, path, file_type, max_depth, max_results, order)

\* <<path, content, fault>>
WriteCalls ==
    {<<P_safe, <<"a">>, "none">>, <<P_safe, <<"a">>, "copy">>, <<P_req, <<"a">>, "none">>,
     <<<<>>, <<"a">>, "none">>, <<P_safe, <<Surrogate>>, "none">>}

\* <<command, background, fault, exit_code>>
BashCalls ==
    {c \in Commands \X BOOLEAN \X ShellFaults \X ExitCodes :
        c[1] # <<"l">> => (~c[2] /\ c[3] = "none" /\ c[4] = 0)}

\* <<url, fault, status_code>>
FetchCalls ==
    {c \in Urls \X WebFaults \X {200, 404} :
        /\ c[1] # <<"http://", "ok.com">> => c[2] = "none"
        /\ c[3] = 404 => (c[1] = <<"http://", "ok.com">> /\ c[2] = "none")}

\* Exceptions handed to create_error_response: ToolError and ValidationError
\* as their constructors build them from their keyword arguments, and an
\* exception that is not a ToolError
Exceptions ==
    {ToolError("m", "unknown", NoDetails, <<>>, r, st) :
        r \in BOOLEAN, st \in {None, "retry"}}
    \cup {ValidationError("m", None, kw) :
             kw \in {NoKw, [retry_strategy |-> "fix_and_retry"]}}
    \cup {PyException("ValueError", "m")}

CreateErrorResponse(error) ==
    /\ last' = [tool |-> "create_error_response", args |-> [error |-> error],
                fault |-> "none", check |-> "skipped",
                resp |-> create_error_response(error), steps |-> <<>>]
    /\ UNCHANGED nonfile

NextTools ==
    \/ \E p \in {P_safe, <<>>} : ReadFile(p, Nothing, Nothing, "none")
    \/ \E c \in WriteCalls : WriteFile(c[1], c[2], Nothing, c[3])
    \/ \E p \in {P_safe, P_blk}, old \in {<<"a">>, <<"b">>} :
           EditFile(p, old, <<"a">>, FALSE, "none")
    \/ \E p \in {P_safe, P_blk}, f \in {"none", "unlink"} : DeleteFile(p, f)
    \/ \E d \in {<<c_o>>, P_safe} : ListDirectory(d)
    \/ \E pt \in {<<"a">>, <<>>} : Grep(pt, P_safe, Nothing, NoKw)
    \/ \E p \in {<<c_o>>, <<>>} : GlobListed(<<"f">>, p, Nothing)
    \/ \E p \in {<<c_o>>, <<c_r>>} : FindListed(Some(<<"f">>), p, Some("f"), Nothing, Nothing)
    \/ \E c \in BashCalls : BashOnce(c[1], Nothing, c[2], c[3], c[4])
    \/ ProcessExit(1, 1, <<>>)
    \/ \E id \in {0, 1} : GetJobStatus(id)
    \/ \E id \in {0, 1} : KillJob(id, "none")
    \/ \E c \in FetchCalls : WebFetch(c[1], Nothing, c[2], c[3], <<"a">>)
    \/ WebSearch(<<"a">>, 10)
    \/ \E e \in Exceptions : CreateErrorResponse(e)

SpecTools == InitFiles /\ [][NextTools]_vars

(***************************************************************************)
(* SpecRace: edit_file coroutines on one event loop.  A coroutine runs     *)
(* from one await to the next without interruption; while it is suspended  *)
(* at an await the other coroutine may run.  No lock is taken.             *)
(***************************************************************************)
CallIds == {1, 2}

\* the content of /w/f before the calls
Original == <<"a", "b">>

\* <<old_string, new_string>>
Edits == {<< <<"a">>, <<"c">> >>, << <<"b">>, <<"d">> >>}

InFlight(cs) == {id \in DOMAIN cs : cs[id].pc # "done"}

\* what a file opened with "w" holds once data has been written from its
\* start: the open has truncated it, and another writer may have written
\* to it since
Overwrite(existing, data) == data \o SubSeq(existing, Len(data) + 1, Len(existing))

\* edit_file from its entry to "async with aiofiles.open(path, 'r')":
\* [pc, path, resp, check, approvals]
edit_file_start(file_path, fs, approvals, md) ==
    LET v == validate_file_path(file_path, TRUE, fs)
        perm == check_file_access(v.path, "write", FALSE, approvals, md)
    IN IF v.raised
       THEN [pc |-> "done", path |-> v.path, resp |-> create_error_response(v.exc),
             check |-> "skipped", approvals |-> approvals]
       ELSE IF perm.raised
       THEN [pc |-> "done", path |-> v.path, resp |-> create_error_response(perm.exc),
             check |-> "denied", approvals |-> perm.approvals]
       ELSE [pc |-> "read", path |-> v.path, resp |-> NoKw, check |-> "allowed",
             approvals |-> perm.approvals]

\* edit_file that writes back the content it read
edit_file_resume_stale(c, fs) ==
    IF c.pc = "read"
    THEN [call |-> [c EXCEPT !.content = universal_newlines(fs[c.path]), !.pc = "backup"],
          files |-> fs]
    ELSE IF c.pc = "backup"
    THEN [call |-> [c EXCEPT !.new_content = c.content, !.pc = "open"],
          files |-> [fs EXCEPT ![BackupPath(c.path, edit_backup_suffix)] = fs[c.path]]]
    ELSE IF c.pc = "open"
    THEN [call |-> [c EXCEPT !.pc = "write"], files |-> [fs EXCEPT ![c.path] = <<>>]]
    ELSE [call |-> [c EXCEPT !.pc = "done",
                             !.resp = [success |-> TRUE, file_path |-> Join(c.path),
                                       replacements_made |-> 1]],
          files |-> [fs EXCEPT ![c.path] = Overwrite(fs[c.path], c.new_content)]]

\* edit_file from the await it is suspended at to its next await or to its
\* return: [call, files].
\*   pc "read":   await f.read() gives the content; the file is then closed
\*   pc "backup": count, replace, shutil.copy2, then aiofiles.open(path, "w")
\*   pc "open":   the open truncates the file
\*   pc "write":  await f.write(new_content) and the close that flushes it
edit_file_resume(c, fs) ==
    LET failed(e) == [call |-> [c EXCEPT !.pc = "done", !.resp = create_error_response(e)],
                      files |-> fs]
        occurrences == Count(c.content, c.old_string)
    IN IF c.pc = "read"
       THEN IF ~IsFile(fs, c.path) THEN failed(OSError("cannot read"))
            ELSE [call |-> [c EXCEPT !.content = universal_newlines(fs[c.path]),
                                     !.pc = "backup"],
                  files |-> fs]
       ELSE IF c.pc = "backup"
       THEN IF occurrences = 0
            THEN failed(ToolError("String not found in file", "unknown",
                                  [old_string |-> c.old_string],
                                  StringNotFoundSuggestions, FALSE, None))
            ELSE IF occurrences > 1
            THEN failed(ToolError("Found several occurrences", "unknown",
                                  [occurrences |-> occurrences],
                                  AmbiguousSuggestions, FALSE, None))
            ELSE IF ~IsFile(fs, c.path) THEN failed(OSError("copy failed"))
            ELSE [call |-> [c EXCEPT !.new_content =
                                         Replace(c.content, c.old_string, c.new_string, 1),
                                     !.pc = "open"],
                  files |-> [fs EXCEPT ![BackupPath(c.path, edit_backup_suffix)] =
                                           fs[c.path]]]
       ELSE IF c.pc = "open"
       THEN [call |-> [c EXCEPT !.pc = "write"], files |-> [fs EXCEPT ![c.path] = <<>>]]
       ELSE [call |-> [c EXCEPT !.pc = "done",
                                !.resp = [success |-> TRUE, file_path |-> Join(c.path),
                                          replacements_made |-> 1]],
             files |-> [fs EXCEPT ![c.path] = Overwrite(fs[c.path], c.new_content)]]

nonrace == <<mode, recovery_enabled, strategies, retry_counts, issued, background_jobs,
             used_ids, read_once>>

\* A caller starts edit_file(file_path, old_string, new_string); order is
\* the number of calls started before it, and overlapped records that
\* another call was suspended when this one started.
EditStart(id, file_path, old_string, new_string) ==
    /\ id \notin DOMAIN calls
    /\ \E st \in {edit_file_start(file_path, files, session_approvals, mode)} :
           /\ calls' = (id :> [tool |-> "edit_file", path |-> st.path,
                               old_string |-> old_string, new_string |-> new_string,
                               pc |-> st.pc, content |-> <<>>, new_content |-> <<>>,
                               resp |-> st.resp, order |-> Cardinality(DOMAIN calls),
                               overlapped |-> InFlight(calls) # {}])
                        @@ [k \in DOMAIN calls |->
                               IF k \in InFlight(calls) /\ st.pc # "done"
                               THEN [calls[k] EXCEPT !.overlapped = TRUE]
                               ELSE calls[k]]
           /\ session_approvals' = st.approvals
           /\ last' = [tool |-> "edit_file_start",
                       args |-> [path |-> file_path, old_string |-> old_string,
                                 new_string |-> new_string, call |-> id],
                       fault |-> "none", check |-> st.check, resp |-> st.resp,
                       steps |-> <<>>]
    /\ UNCHANGED <<files, nonrace>>

\* The event loop resumes a suspended edit_file
EditResume(id) ==
    /\ id \in InFlight(calls)
    /\ \E r \in {edit_file_resume(calls[id], files)} :
           /\ calls' = [calls EXCEPT ![id] = r.call]
           /\ files' = r.files
           /\ last' = [tool |-> "edit_file_resume", args |-> [call |-> id],
                       fault |-> "none", check |-> "allowed", resp |-> r.call.resp,
                       steps |-> <<>>]
    /\ UNCHANGED <<session_approvals, nonrace>>

InitRace ==
    /\ mode = "moderate"
    /\ recovery_enabled = TRUE
    /\ strategies = NoKw
    /\ session_approvals = {}
    /\ files = [p \in FsPaths |-> IF p = P_safe THEN Original
                                  ELSE IF p \in InitialFiles THEN <<"a">> ELSE NoFile]
    /\ last = NoCall
    /\ retry_counts = NoKw
    /\ issued = [id \in OpIds |-> 0]
    /\ background_jobs = NoKw
    /\ used_ids = {}
    /\ read_once = {}
    /\ calls = NoKw

NextRace ==
    \/ \E id \in CallIds, p \in {P_safe, P_blk}, e \in Edits : EditStart(id, p, e[1], e[2])
    \/ \E id \in CallIds : EditResume(id)

SpecRace == InitRace /\ [][NextRace]_vars

(***************************************************************************)
(* SpecJobRace: get_job_status and kill_job coroutines on one event loop,  *)
(* for the one background job that bash starts.  get_job_status suspends   *)
(* at "await process.communicate()"; kill_job suspends at                  *)
(* "await process.wait()" while the process has not exited.                *)
(***************************************************************************)
Without(jobs, job_id) == [id \in DOMAIN jobs \ {job_id} |-> jobs[id]]

Suspended(cs, pc) == {id \in DOMAIN cs : cs[id].pc = pc}

\* get_job_status from its entry to its return or to the await: [pc, resp, process]
get_job_status_start(job_id, jobs) ==
    IF job_id \notin DOMAIN jobs
    THEN [pc |-> "done", resp |-> create_error_response(JobNotFound), process |-> NoKw]
    ELSE IF jobs[job_id].returncode = Nothing
    THEN [pc |-> "done", process |-> jobs[job_id],
          resp |-> [success |-> TRUE, job_id |-> job_id, status |-> "running",
                    pid |-> jobs[job_id].pid]]
    ELSE [pc |-> "communicate", resp |-> NoKw, process |-> jobs[job_id]]

\* get_job_status that removes the job with pop(job_id, None)
get_job_status_resume_pop(c, jobs) ==
    [call |-> [c EXCEPT !.pc = "done",
                        !.resp = [success |-> c.process.returncode[1] = 0,
                                  job_id |-> c.job_id, status |-> "completed",
                                  exit_code |-> c.process.returncode[1],
                                  stdout |-> c.process.stdout, stderr |-> <<>>]],
     jobs |-> Without(jobs, c.job_id)]

\* get_job_status from the await to its return: [call, jobs].  communicate()
\* raises RuntimeError when another coroutine was already waiting on the
\* process's streams (fault "busy"); "del background_jobs[job_id]" raises
\* KeyError when the entry has gone meanwhile.
get_job_status_resume(c, jobs) ==
    LET failed(e) == [call |-> [c EXCEPT !.pc = "done", !.resp = create_error_response(e)],
                      jobs |-> jobs]
    IN IF c.fault = "busy" THEN failed(PyException("RuntimeError", "read() called while another coroutine is already waiting for incoming data"))
       ELSE IF c.job_id \notin DOMAIN jobs THEN failed(PyException("KeyError", ""))
       ELSE [call |-> [c EXCEPT !.pc = "done",
                                !.resp = [success |-> c.process.returncode[1] = 0,
                                          job_id |-> c.job_id, status |-> "completed",
                                          exit_code |-> c.process.returncode[1],
                                          stdout |-> c.process.stdout, stderr |-> <<>>]],
             jobs |-> Without(jobs, c.job_id)]

\* kill_job from its entry to its return or to the await: [pc, resp, jobs].
\* process.wait() returns without suspending when the process has exited.
kill_job_start(job_id, fault, jobs) ==
    IF job_id \notin DOMAIN jobs
    THEN [pc |-> "done", resp |-> create_error_response(JobNotFound), jobs |-> jobs]
    ELSE IF jobs[job_id].returncode = Nothing
    THEN [pc |-> "wait", resp |-> NoKw, jobs |-> jobs]
    ELSE IF fault = "lookup"
    THEN [pc |-> "done", jobs |-> jobs,
          resp |-> create_error_response(PyException("ProcessLookupError", ""))]
    ELSE [pc |-> "done", jobs |-> Without(jobs, job_id),
          resp |-> [success |-> TRUE, job_id |-> job_id, message |-> "Job killed"]]

\* kill_job from the await to its return: [call, jobs]
kill_job_resume(c, jobs) ==
    IF c.job_id \notin DOMAIN jobs
    THEN [call |-> [c EXCEPT !.pc = "done",
                             !.resp = create_error_response(PyException("KeyError", ""))],
          jobs |-> jobs]
    ELSE [call |-> [c EXCEPT !.pc = "done",
                             !.resp = [success |-> TRUE, job_id |-> c.job_id,
                                       message |-> "Job killed"]],
          jobs |-> Without(jobs, c.job_id)]

nonjobrace == <<mode, session_approvals, files, recovery_enabled, strategies,
                retry_counts, issued, used_ids>>

\* The record of a call that has started: completed says that the job's
\* process had exited when the call started, overlapped that the call was
\* suspended while another call ran.
StartedCall(tool, job_id, fault, st, process) ==
    [tool |-> tool, job_id |-> job_id, pc |-> st.pc, fault |-> fault, resp |-> st.resp,
     process |-> process,
     completed |-> job_id \in DOMAIN background_jobs
                       /\ background_jobs[job_id].returncode # Nothing,
     overlapped |-> InFlight(calls) # {} /\ st.pc # "done"]

WithStarted(id, call) ==
    (id :> call) @@ [k \in DOMAIN calls |->
                        IF k \in InFlight(calls) /\ call.pc # "done"
                        THEN [calls[k] EXCEPT !.overlapped = TRUE]
                        ELSE calls[k]]

IsCompletedStatus(r) == "status" \in DOMAIN r /\ r.status = "completed"

GetJobStatusStart(id, job_id, fault) ==
    /\ id \notin DOMAIN calls
    /\ fault = "busy" => Suspended(calls, "communicate") # {}
    /\ \E st \in {get_job_status_start(job_id, background_jobs)} :
           /\ calls' = WithStarted(id, StartedCall("get_job_status", job_id, fault, st,
                                                   st.process))
           /\ last' = [tool |-> "get_job_status_start",
                       args |-> [job_id |-> job_id, call |-> id], fault |-> fault,
                       check |-> "skipped", resp |-> st.resp, steps |-> <<>>]
    /\ UNCHANGED <<background_jobs, read_once, nonjobrace>>

GetJobStatusResume(id) ==
    /\ id \in Suspended(calls, "communicate")
    /\ calls[id].tool = "get_job_status"
    /\ \E r \in {get_job_status_resume(calls[id], background_jobs)} :
           /\ calls' = [calls EXCEPT ![id] = r.call]
           /\ background_jobs' = r.jobs
           /\ read_once' = IF IsCompletedStatus(r.call.resp)
                           THEN read_once \cup {calls[id].job_id} ELSE read_once
           /\ last' = [tool |-> "get_job_status_resume", args |-> [call |-> id],
                       fault |-> calls[id].fault, check |-> "skipped",
                       resp |-> r.call.resp, steps |-> <<>>]
    /\ UNCHANGED nonjobrace

KillJobStart(id, job_id, fault) ==
    /\ id \notin DOMAIN calls
    /\ \E st \in {kill_job_start(job_id, fault, background_jobs)} :
           /\ calls' = WithStarted(id, StartedCall("kill_job", job_id, fault, st, NoKw))
           /\ background_jobs' = st.jobs
           /\ last' = [tool |-> "kill_job_start",
                       args |-> [job_id |-> job_id, call |-> id], fault |-> fault,
                       check |-> "skipped", resp |-> st.resp, steps |-> <<>>]
    /\ UNCHANGED <<read_once, nonjobrace>>

\* process.wait() returns once the process has exited
KillJobResume(id) ==
    /\ id \in Suspended(calls, "wait")
    /\ calls[id].job_id \in DOMAIN background_jobs =>
           background_jobs[calls[id].job_id].returncode # Nothing
    /\ \E r \in {kill_job_resume(calls[id], background_jobs)} :
           /\ calls' = [calls EXCEPT ![id] = r.call]
           /\ background_jobs' = r.jobs
           /\ last' = [tool |-> "kill_job_resume", args |-> [call |-> id],
                       fault |-> "none", check |-> "skipped", resp |-> r.call.resp,
                       steps |-> <<>>]
    /\ UNCHANGED <<read_once, nonjobrace>>

NextJobRace ==
    \/ BashOnce(<<"l">>, Nothing, TRUE, "none", 0)
    \/ \E x \in ExitCodes, o \in {<<>>, <<"a">>} : ProcessExit(1, x, o)
    \/ \E id \in CallIds, f \in {"none", "busy"} : GetJobStatusStart(id, 1, f)
    \/ \E id \in CallIds : GetJobStatusResume(id)
    \/ \E id \in CallIds, f \in {"none", "lookup"} : KillJobStart(id, 1, f)
    \/ \E id \in CallIds : KillJobResume(id)

SpecJobRace == InitJobs /\ [][NextJobRace]_vars

(***************************************************************************)
(* SpecObserve: AgentCore._observe applied to a sequence of action         *)
(* results, over the agent's ErrorRecoverySystem.  calls keeps the         *)
(* _observe calls made so far, in order.                                   *)
(***************************************************************************)
MaxObserve == 5

\* a Python str value, as opposed to a dict
Str(s) == [str |-> s]
IsStr(v) == DOMAIN v = {"str"}

NetworkEnvelope ==
    [error |-> TRUE, error_type |-> "network_error", retryable |-> TRUE,
     retry_strategy |-> "exponential_backoff"]

\* What _act returns: no action, a tool result (the tool's response under
\* "result"), or a parse failure with its message under "error"; and a
\* failed result that carries the tool's envelope under "error".
ActionResults ==
    {NoKw,
     [action |-> "read_file", result |-> [success |-> TRUE], success |-> TRUE],
     [action |-> "web_fetch", result |-> NetworkEnvelope, success |-> FALSE],
     [action |-> "json_error", error |-> Str("Failed to parse JSON"), success |-> FALSE],
     [action |-> "web_fetch", error |-> NetworkEnvelope, success |-> FALSE]}

\* str(uuid.uuid4()) of the n-th call: a value no earlier call drew
uuid4(n) == <<"u1", "u2", "u3", "u4", "u5", "u6", "u7", "u8">>[n]

\* _observe: [raised, out, operation_id, counts].  should_retry calls
\* error.get, which a str does not have.
observe(action_result, operation_id, enabled, table, counts) ==
    IF DOMAIN action_result = {}
    THEN [raised |-> FALSE, out |-> [complete |-> FALSE, error |-> None],
          operation_id |-> None, counts |-> counts]
    ELSE IF Get(action_result, "success", TRUE)
    THEN [raised |-> FALSE, operation_id |-> None, counts |-> counts,
          out |-> [complete |-> TRUE, error |-> None,
                   result |-> Get(action_result, "result", None)]]
    ELSE LET error == Get(action_result, "error", NoKw)
         IN IF enabled /\ IsStr(error)
            THEN [raised |-> TRUE, operation_id |-> operation_id, counts |-> counts,
                  out |-> PyException("AttributeError",
                                      "'str' object has no attribute 'get'")]
            ELSE LET r == handle_error(error, operation_id,
                                       [operation |-> Get(action_result, "action", None)],
                                       enabled, table, counts)
                 IN [raised |-> FALSE, operation_id |-> operation_id,
                     counts |-> r.counts,
                     out |-> [complete |-> FALSE, error |-> error,
                              recovery |-> r.directive]]

nonobserve == <<mode, session_approvals, files, recovery_enabled, strategies, issued,
                background_jobs, used_ids, read_once>>

Observe(action_result) ==
    LET n == Cardinality(DOMAIN calls) + 1
    IN /\ n <= MaxObserve
       /\ \E r \in {observe(action_result, uuid4(n), recovery_enabled, strategies,
                             retry_counts)} :
              /\ retry_counts' = r.counts
              /\ calls' = (n :> [tool |-> "_observe", pc |-> "done",
                                 action_result |-> action_result,
                                 operation_id |-> r.operation_id,
                                 raised |-> r.raised, out |-> r.out]) @@ calls
              /\ last' = [tool |-> "_observe", args |-> [action_result |-> action_result],
                          fault |-> "none", check |-> "skipped", resp |-> r.out,
                          steps |-> <<>>]
       /\ UNCHANGED nonobserve

NextObserve == \E a \in ActionResults : Observe(a)

SpecObserve == InitRecovery /\ [][NextObserve]_vars

(***************************************************************************)
(* Properties of the PermissionManager and the file tools.                 *)
(***************************************************************************)
FileToolNames == {"read_file", "write_file", "edit_file", "delete_file"}

\* The operation a file tool asks check_file_access about
ToolOperation(tool) ==
    IF tool = "read_file" THEN "read" ELSE IF tool = "delete_file" THEN "delete" ELSE "write"

\* path is the blocked directory itself or lies below it
UnderBlocked(path) ==
    \E i \in DOMAIN blocked_directories :
        relative_to(path, normalize_path(blocked_directories[i]))

HasBlockedType(path) == LowerText(suffix(path)) \in blocked_types

LastPath == normalize_path(last.args.path)

\* C1: a check_file_access on a path that resolves under a blocked directory
\* raises permission_denied for every operation, whatever the safe
\* directories and the approvals recorded are; a file tool that reaches the
\* check on such a path returns that permission_denied envelope.
C1_BlockedPrecedence ==
    /\ (last.tool = "check_file_access" /\ UnderBlocked(LastPath))
          => /\ "raised" \in DOMAIN last.resp
             /\ last.resp.raised.is_tool_error
             /\ last.resp.raised.error_type = "permission_denied"
    /\ (last.tool \in FileToolNames /\ last.check # "skipped" /\ UnderBlocked(LastPath))
          => /\ last.check = "denied"
             /\ IsError(last.resp)
             /\ last.resp.error_type = "permission_denied"

\* A blocked path that is also under a safe directory was checked with
\* auto_approve while its approval was recorded, and the check raised.
C1_Witness ==
    /\ last.tool = "check_file_access"
    /\ last.args.path = P_blk
    /\ last.args.auto_approve
    /\ is_safe_directory(P_blk)
    /\ approval_key(last.args.operation, P_blk) \in session_approvals
    /\ "raised" \in DOMAIN last.resp

\* C2: once (operation, path) is recorded in session_approvals, the check a
\* file tool makes for that operation on that path (not blocked, no blocked
\* extension) allows it.
C2_ApprovalAuthorises ==
    (/\ last.tool \in FileToolNames
     /\ last.check # "skipped"
     /\ ~is_blocked_directory(LastPath)
     /\ ~HasBlockedType(LastPath)
     /\ approval_key(ToolOperation(last.tool), LastPath) \in session_approvals)
        => last.check = "allowed"

\* C3: a file tool whose check is denied for want of approval (path not
\* blocked, not safe, not approved; under a require-approval path or mode
\* strict) returns a
\* permission_denied envelope with retryable=true and
\* retry_strategy=request_approval.
C3_ApprovalDenialEnvelope ==
    (/\ last.tool \in FileToolNames
     /\ last.check = "denied"
     /\ ~is_blocked_directory(LastPath)
     /\ ~HasBlockedType(LastPath)
     /\ ~is_safe_directory(LastPath)
     /\ approval_key(ToolOperation(last.tool), LastPath) \notin session_approvals
     /\ requires_approval(LastPath) \/ mode = "strict")
        => /\ IsError(last.resp)
           /\ last.resp.error_type = "permission_denied"
           /\ last.resp.retryable = TRUE
           /\ last.resp.retry_strategy = "request_approval"

ShouldBackup(create_backup) ==
    IF create_backup # Nothing THEN create_backup[1] ELSE backup_enabled

\* C4: a write_file that succeeds leaves the target with the content given;
\* when the target existed it reports operation=overwrite and, backups being
\* enabled, the backup file holds the target's previous content and
\* backup_created is true; when the target did not exist it reports
\* operation=create, backup_created=false and the backup path is untouched.
C4_WriteBackup ==
    [][(last'.tool = "write_file" /\ IsSuccess(last'.resp)) =>
          LET p == normalize_path(last'.args.path)
              bk == BackupPath(p, backup_suffix)
          IN /\ files'[p] = last'.args.content
             /\ IF files[p] # NoFile
                THEN /\ last'.resp.operation = "overwrite"
                     /\ ShouldBackup(last'.args.create_backup)
                           => (files'[bk] = files[p] /\ last'.resp.backup_created = TRUE)
                ELSE /\ last'.resp.operation = "create"
                     /\ last'.resp.backup_created = FALSE
                     /\ files'[bk] = files[bk]]_vars

\* An overwrite has returned with a backup that differs from the new content.
C4_Witness ==
    /\ last.tool = "write_file"
    /\ IsSuccess(last.resp)
    /\ last.resp.operation = "overwrite"
    /\ last.resp.backup_created = TRUE
    /\ files[BackupPath(LastPath, backup_suffix)] \notin {NoFile, files[LastPath]}

\* C5: write_file with a backup requested, and edit_file, on an existing
\* file: when the copy to the backup path fails the call returns an error
\* envelope and the target is unchanged; and whenever the call changes the
\* target, the backup file then holds the target's previous content.
C5_BackupBeforeOverwrite ==
    [][(/\ last'.tool \in {"write_file", "edit_file"}
        /\ normalize_path(last'.args.path) \in DOMAIN files
        /\ files[normalize_path(last'.args.path)] # NoFile
        /\ last'.tool = "write_file" => ShouldBackup(last'.args.create_backup)) =>
          LET p == normalize_path(last'.args.path)
              bk == BackupPath(p, backup_suffix)
          IN /\ last'.fault = "copy" => (IsError(last'.resp) /\ files'[p] = files[p])
             /\ files'[p] # files[p] => files'[bk] = files[p]]_vars

\* A copy to the backup path has failed on an existing, writable file.
C5_Witness ==
    /\ last.tool \in {"write_file", "edit_file"}
    /\ last.fault = "copy"
    /\ last.check = "allowed"
    /\ IsError(last.resp)
    /\ last.resp.message = "copy failed"
    /\ files[LastPath] # NoFile

(***************************************************************************)
(* Properties of the ErrorRecoverySystem.                                  *)
(***************************************************************************)
Retryable(error) == "retryable" \in DOMAIN error /\ error.retryable = TRUE

LedgerCount(id) == IF id \in DOMAIN retry_counts THEN retry_counts[id] ELSE 0

\* The error names a strategy, or the table configures an action for its kind
NamesStrategy(error) ==
    \/ "retry_strategy" \in DOMAIN error /\ error.retry_strategy \notin {None, ""}
    \/ LET kind == IF "error_type" \in DOMAIN error THEN error.error_type ELSE "unknown"
       IN /\ kind \in DOMAIN strategies
          /\ "action" \in DOMAIN strategies[kind]
          /\ strategies[kind].action \notin {None, ""}

\* C6: the ledger count of every operation id lies between 0 and
\* max_retries, and no id has been issued more than max_retries non-fail
\* directives since its last reset.
C6_RetryCeiling ==
    /\ \A id \in DOMAIN retry_counts : retry_counts[id] >= 0 /\ retry_counts[id] <= max_retries
    /\ \A id \in OpIds : issued[id] <= max_retries

\* An id has used all its retries and its next retryable error was failed.
C6_Witness ==
    /\ last.tool = "handle_error"
    /\ Retryable(last.args.error)
    /\ LedgerCount(last.args.operation_id) = max_retries
    /\ issued[last.args.operation_id] = max_retries
    /\ last.resp.action = "fail"

\* C7: with recovery enabled, should_retry on an error with retryable=true
\* is true at counts 0, 1, 2 and false at count 3; it is false at every count
\* when retryable is false or absent or recovery is disabled; and it leaves
\* the ledger as it was.
C7_ShouldRetry ==
    [][last'.tool = "should_retry" =>
          LET n == LedgerCount(last'.args.operation_id)
              answer == last'.resp.returned
          IN /\ retry_counts' = retry_counts
             /\ (recovery_enabled /\ Retryable(last'.args.error) /\ n \in {0, 1, 2})
                   => answer = TRUE
             /\ (recovery_enabled /\ Retryable(last'.args.error) /\ n = 3)
                   => answer = FALSE
             /\ (~recovery_enabled \/ ~Retryable(last'.args.error)) => answer = FALSE]_vars

\* should_retry has refused an id whose count is 3 for a retryable error.
C7_Witness ==
    /\ last.tool = "should_retry"
    /\ recovery_enabled
    /\ Retryable(last.args.error)
    /\ LedgerCount(last.args.operation_id) = 3
    /\ last.resp.returned = FALSE

\* C8: when recovery is disabled, or the error is not retryable, or the id's
\* count has reached max_retries, handle_error returns action=fail with the
\* original error and leaves the ledger unchanged.
C8_TerminalFail ==
    [][(/\ last'.tool = "handle_error"
        /\ \/ ~recovery_enabled
           \/ ~Retryable(last'.args.error)
           \/ LedgerCount(last'.args.operation_id) >= max_retries) =>
          /\ last'.resp.action = "fail"
          /\ last'.resp.error = last'.args.error
          /\ retry_counts' = retry_counts]_vars

\* A retryable error on an exhausted id has been failed a second time.
C8_Witness ==
    /\ last.tool = "handle_error"
    /\ recovery_enabled
    /\ Retryable(last.args.error)
    /\ LedgerCount(last.args.operation_id) = max_retries
    /\ last.resp.action = "fail"
    /\ last.resp.error = last.args.error
    /\ last.args.context # NoKw

\* C9 as stated: whenever should_retry is true, handle_error adds one to the
\* id's count and returns a non-fail directive carrying the new count.
C9_AlwaysRecovers ==
    [][(/\ last'.tool = "handle_error"
        /\ recovery_enabled
        /\ Retryable(last'.args.error)
        /\ LedgerCount(last'.args.operation_id) < max_retries) =>
          /\ get_retry_count(last'.args.operation_id, retry_counts') = LedgerCount(last'.args.operation_id) + 1
          /\ last'.resp.action # "fail"
          /\ last'.resp.retry_count = get_retry_count(last'.args.operation_id, retry_counts')]_vars

\* C9 amended: whenever should_retry is true and a strategy resolves for the
\* error (it names a retry_strategy, or the table configures an action for
\* its kind), handle_error adds one to the id's count and returns a non-fail
\* directive carrying the new count; when no strategy resolves it returns
\* action=fail and leaves the ledger unchanged.
C9_RecoversWithStrategy ==
    [][(/\ last'.tool = "handle_error"
        /\ recovery_enabled
        /\ Retryable(last'.args.error)
        /\ LedgerCount(last'.args.operation_id) < max_retries) =>
          IF NamesStrategy(last'.args.error)
          THEN /\ get_retry_count(last'.args.operation_id, retry_counts') = LedgerCount(last'.args.operation_id) + 1
               /\ last'.resp.action # "fail"
               /\ last'.resp.retry_count = get_retry_count(last'.args.operation_id, retry_counts')
          ELSE /\ last'.resp.action = "fail"
               /\ retry_counts' = retry_counts]_vars

\* A recovery directive has been issued for an error that names a strategy
\* the enumeration does not know.
C9_Witness ==
    /\ last.tool = "handle_error"
    /\ last.args.error = [error_type |-> "rate_limit", retryable |-> TRUE,
                          retry_strategy |-> "retry_later"]
    /\ last.resp.action = "ask_user"
    /\ last.resp.retry_count = 2
    /\ LedgerCount(last.args.operation_id) = 2

(***************************************************************************)
(* Properties of the ShellTools job table.                                 *)
(***************************************************************************)
\* C10: get_job_status on a running background job returns status=running
\* and leaves the job in the table; the first get_job_status after the job
\* has completed returns status=completed with its exit code and removes the
\* job; every later get_job_status for that id returns a non-retryable
\* "job not found" error.
C10_ReadOnce ==
    [][last'.tool = "get_job_status" =>
          LET id == last'.args.job_id
              resp == last'.resp
          IN /\ (id \in DOMAIN background_jobs /\ background_jobs[id].returncode = Nothing)
                   => /\ IsSuccess(resp)
                      /\ resp.status = "running"
                      /\ background_jobs' = background_jobs
             /\ (id \in DOMAIN background_jobs /\ background_jobs[id].returncode # Nothing)
                   => /\ ~IsError(resp)
                      /\ resp.status = "completed"
                      /\ resp.exit_code = background_jobs[id].returncode[1]
                      /\ id \notin DOMAIN background_jobs'
             /\ id \in read_once
                   => /\ IsError(resp)
                      /\ resp.message = "Job not found"
                      /\ resp.retryable = FALSE
                      /\ background_jobs' = background_jobs]_vars

\* A job whose completed status (a failing exit code) was returned once has
\* been asked about again, while another job is still in the table.
C10_Witness ==
    /\ last.tool = "get_job_status"
    /\ last.args.job_id \in read_once
    /\ IsError(last.resp)
    /\ last.resp.message = "Job not found"
    /\ background_jobs # NoKw

(***************************************************************************)
(* Properties of the ShellTools foreground execution.                      *)
(***************************************************************************)
\* C11: a foreground bash command that passes validation and the permission
\* check and is still running when its effective timeout t expires is killed
\* and waited on before bash returns, and bash returns an error envelope with
\* error_type=timeout, retryable=true, retry_strategy=increase_timeout and
\* details.timeout_seconds=t, with no exit code and no output.
C11_ForegroundTimeout ==
    (/\ last.tool = "bash"
     /\ ~last.args.background
     /\ last.fault = "timeout"
     /\ last.check = "allowed")
        => /\ IsError(last.resp)
           /\ last.resp.error_type = "timeout"
           /\ last.resp.retryable = TRUE
           /\ last.resp.retry_strategy = "increase_timeout"
           /\ last.resp.details = [timeout_seconds |-> effective_timeout(last.args.timeout)]
           /\ DOMAIN last.resp \cap {"exit_code", "stdout", "stderr", "success"} = {}
           /\ SubSeq(last.steps, Len(last.steps) - 1, Len(last.steps)) = <<"kill", "wait">>

\* A command given a timeout above max_timeout has timed out at max_timeout.
C11_Witness ==
    /\ last.tool = "bash"
    /\ last.fault = "timeout"
    /\ last.check = "allowed"
    /\ last.args.timeout = Some(700)
    /\ IsError(last.resp)
    /\ last.resp.details = [timeout_seconds |-> max_timeout]

(***************************************************************************)
(* Properties of the tool-method boundary.                                 *)
(***************************************************************************)
ToolMethods ==
    {"read_file", "write_file", "edit_file", "delete_file", "list_directory", "grep",
     "glob", "find", "bash", "get_job_status", "kill_job", "web_fetch", "web_search"}

EnvelopeFields ==
    {"error", "error_type", "message", "details", "suggestions", "retryable",
     "retry_strategy"}

HasEnvelopeShape(r) == DOMAIN r = EnvelopeFields /\ r.error = TRUE

\* C12: every response returned by a tool method is either a success mapping
\* with success=true or a mapping of the Error Envelope shape, and no call
\* ends by raising an exception to the caller.
C12_ResponseShape ==
    last.tool \in ToolMethods =>
        /\ "raised" \notin DOMAIN last.resp
        /\ IsSuccess(last.resp) \/ HasEnvelopeShape(last.resp)

\* The steps of a tool invocation that act on the filesystem, the process
\* table, the job table or the network
SideEffects == {"copy", "mkdir", "open", "write", "unlink", "spawn", "add_job", "request"}

NoSideEffectIn(steps) == \A i \in DOMAIN steps : steps[i] \notin SideEffects

\* The invocation stopped at its validation, or at its permission check
StoppedEarly(call) == call.steps = <<"validate">> \/ call.check = "denied"

\* C13: in every tool invocation a side effect happens only after validation
\* and then the permission check have both passed, and an invocation whose
\* validation or permission check fails returns an error envelope and has
\* performed no side effect: the files and the job table are as before.
C13_ValidateCheckPerform ==
    [][last'.tool \in ToolMethods =>
          /\ ~NoSideEffectIn(last'.steps) =>
                 /\ last'.check = "allowed"
                 /\ Len(last'.steps) > 2
                 /\ last'.steps[1] = "validate"
                 /\ last'.steps[2] = "check"
                 /\ NoSideEffectIn(SubSeq(last'.steps, 1, 2))
          /\ StoppedEarly(last') =>
                 /\ HasEnvelopeShape(last'.resp)
                 /\ NoSideEffectIn(last'.steps)
                 /\ files' = files
                 /\ background_jobs' = background_jobs
                 /\ used_ids' = used_ids]_vars

\* write_file was refused by the permission check: the target keeps its
\* content, no backup of it exists and no step followed the check.
C13_Witness ==
    /\ last.tool = "write_file"
    /\ last.check = "denied"
    /\ last.steps = <<"validate", "check">>
    /\ HasEnvelopeShape(last.resp)
    /\ files[P_req] = <<"a">>
    /\ files[BackupPath(P_req, backup_suffix)] = NoFile

\* C14: every error envelope, whether a tool method or create_error_response
\* produced it, that has retryable=false has retry_strategy=null.
C14_NonRetryableHasNoStrategy ==
    HasEnvelopeShape(last.resp) =>
        (last.resp.retryable = FALSE => last.resp.retry_strategy = None)

(***************************************************************************)
(* Properties of edit_file.                                                *)
(***************************************************************************)
\* The step repeats the successful edit_file call that the state records,
\* and that call left no occurrence of old_string in the target.
RepeatsExhaustedEdit ==
    /\ last.tool = "edit_file"
    /\ IsSuccess(last.resp)
    /\ Count(files[LastPath], last.args.old_string) = 0
    /\ last'.tool = "edit_file"
    /\ last'.args = last.args

\* C15 as stated: after a successful edit_file that leaves no occurrence of old
\* in P, a second identical call returns an error envelope of the
\* file_not_found kind that is non-retryable, and leaves the content of P
\* and of its backup unchanged.
C15_SecondEditFileNotFound ==
    [][RepeatsExhaustedEdit =>
          /\ IsError(last'.resp)
          /\ last'.resp.error_type = "file_not_found"
          /\ last'.resp.retryable = FALSE
          /\ files'[LastPath] = files[LastPath]
          /\ files'[BackupPath(LastPath, edit_backup_suffix)]
                = files[BackupPath(LastPath, edit_backup_suffix)]]_vars

\* C15 amended: the second identical call returns an error envelope of kind
\* unknown whose message is "String not found in file", that is
\* non-retryable with no retry strategy and that suggests a search, and it
\* leaves the content of P and of its backup unchanged.
C15_SecondEditStringNotFound ==
    [][RepeatsExhaustedEdit =>
          /\ IsError(last'.resp)
          /\ last'.resp.error_type = "unknown"
          /\ last'.resp.message = "String not found in file"
          /\ last'.resp.retryable = FALSE
          /\ last'.resp.retry_strategy = None
          /\ last'.resp.suggestions = StringNotFoundSuggestions
          /\ files'[LastPath] = files[LastPath]
          /\ files'[BackupPath(LastPath, edit_backup_suffix)]
                = files[BackupPath(LastPath, edit_backup_suffix)]]_vars

\* An edit_file has found no occurrence in a file whose backup, made by an
\* earlier edit, still holds the occurrence.
C15_Witness ==
    /\ last.tool = "edit_file"
    /\ IsError(last.resp)
    /\ last.resp.message = "String not found in file"
    /\ files[LastPath] # NoFile
    /\ files[BackupPath(LastPath, edit_backup_suffix)] # NoFile
    /\ Count(files[BackupPath(LastPath, edit_backup_suffix)], last.args.old_string) > 0

\* t is s with one occurrence of old replaced by new
ReplacedOne(s, t, old, new) ==
    \E i \in 0..(Len(s) - Len(old)) :
        /\ SubSeq(s, i + 1, i + Len(old)) = old
        /\ t = SubSeq(s, 1, i) \o new \o SubSeq(s, i + Len(old) + 1, Len(s))

\* C16: an edit_file that passes validation and the permission check and
\* meets no I/O failure, on a file with n occurrences of old_string: with
\* n = 1 it replaces that occurrence and reports replacements_made = 1; with
\* replace_all and n > 0 it replaces all n and reports replacements_made = n;
\* with n > 1 and replace_all false it returns a non-retryable error
\* envelope with retry_strategy null and changes neither file nor backup.
C16_EditUnambiguous ==
    [][(/\ last'.tool = "edit_file"
        /\ last'.check = "allowed"
        /\ last'.fault = "none"
        /\ files[normalize_path(last'.args.path)] # NoFile) =>
          LET p == normalize_path(last'.args.path)
              bk == BackupPath(p, edit_backup_suffix)
              old == last'.args.old_string
              new == last'.args.new_string
              n == Count(files[p], old)
          IN /\ n = 1 =>
                  /\ IsSuccess(last'.resp)
                  /\ last'.resp.replacements_made = 1
                  /\ ReplacedOne(files[p], files'[p], old, new)
             /\ (last'.args.replace_all /\ n > 0) =>
                  /\ IsSuccess(last'.resp)
                  /\ last'.resp.replacements_made = n
                  /\ Len(files'[p]) = Len(files[p]) + n * (Len(new) - Len(old))
                  /\ Count(files'[p], new) >= n
             /\ (n > 1 /\ ~last'.args.replace_all) =>
                  /\ IsError(last'.resp)
                  /\ last'.resp.retryable = FALSE
                  /\ last'.resp.retry_strategy = None
                  /\ files'[p] = files[p]
                  /\ files'[bk] = files[bk]]_vars

\* A replace-all edit_file has replaced two occurrences.
C16_Witness ==
    /\ last.tool = "edit_file"
    /\ last.args.replace_all
    /\ IsSuccess(last.resp)
    /\ last.resp.replacements_made = 2
    /\ Count(files[LastPath], last.args.new_string) = 2

(***************************************************************************)
(* Properties of write_file followed by read_file.                         *)
(***************************************************************************)
RECURSIVE SplitLines(_, _)
\* the lines of a text between its "\n" separators, as str.split("\n")
SplitLines(t, cur) ==
    IF t = <<>> THEN <<cur>>
    ELSE IF Head(t) = "\n" THEN <<cur>> \o SplitLines(Tail(t), <<>>)
    ELSE SplitLines(Tail(t), Append(cur, Head(t)))

RECURSIVE JoinLines(_)
JoinLines(ls) ==
    IF ls = <<>> THEN <<>>
    ELSE IF Len(ls) = 1 THEN ls[1]
    ELSE ls[1] \o <<"\n">> \o JoinLines(Tail(ls))

\* a read_file content with the six-column line number and the tab taken
\* off the front of every line
StripPrefixes(t) ==
    IF t = <<>> THEN <<>>
    ELSE LET ls == SplitLines(t, <<>>)
         IN JoinLines([i \in 1..Len(ls) |-> SubSeq(ls[i], 8, Len(ls[i]))])

\* the number of lines of a text: its "\n" terminated lines and a last
\* unterminated one
NumLines(c) ==
    Cardinality({i \in 1..Len(c) : c[i] = "\n"})
        + (IF c # <<>> /\ Last(c) # "\n" THEN 1 ELSE 0)

\* C17: a successful write_file(P, C) followed by read_file(P) with no
\* offset and no limit returns content that equals C once the line-number
\* prefixes are removed (the terminator of the last line of C, which the
\* joined content never carries, is not counted as a difference), and
\* total_lines equals the number of lines of C.
C17_RoundTrip ==
    [][(/\ last.tool = "write_file"
        /\ IsSuccess(last.resp)
        /\ last'.tool = "read_file"
        /\ last'.args.path = last.args.path
        /\ last'.args.offset = Nothing
        /\ last'.args.limit = Nothing
        /\ last'.fault = "none") =>
          /\ IsSuccess(last'.resp)
          /\ \/ StripPrefixes(last'.resp.content) = last.args.content
             \/ StripPrefixes(last'.resp.content) \o <<"\n">> = last.args.content
          /\ last'.resp.total_lines = NumLines(last.args.content)]_vars

(***************************************************************************)
(* Properties of the exponential backoff.                                  *)
(***************************************************************************)
\* the configured value of a network_error backoff setting, or its default
BackoffSetting(key, default) == Get(Get(strategies, "network_error", NoKw), key, default)

\* the ledger count the backoff of the recorded call was computed from
BackoffCount == Get(retry_counts, Get(last.args.context, "operation_id", ""), 0)

\* C18: the wait of the exponential_backoff strategy never exceeds the cap,
\* and with base 2 and cap 30 it is 1, 2, 4, 8, 16 for retry_count 0, 1, 2,
\* 3, 4 and 30 for every retry_count from 5 on.
C18_BackoffValue ==
    (last.tool = "execute_strategy" /\ last.args.strategy = "exponential_backoff") =>
        /\ last.resp.action = "wait"
        /\ last.resp.wait_seconds <= BackoffSetting("backoff_max", 30)
        /\ (BackoffSetting("backoff_base", 2) = 2 /\ BackoffSetting("backoff_max", 30) = 30) =>
              /\ BackoffCount <= 4 => last.resp.wait_seconds = <<1, 2, 4, 8, 16>>[BackoffCount + 1]
              /\ BackoffCount >= 5 => last.resp.wait_seconds = 30

\* The backoff has been computed for retry_count 6 with base 2 and cap 30,
\* and was clamped to 30.
C18_Witness ==
    /\ last.tool = "execute_strategy"
    /\ last.args.strategy = "exponential_backoff"
    /\ BackoffSetting("backoff_base", 2) = 2
    /\ BackoffSetting("backoff_max", 30) = 30
    /\ BackoffCount = 6
    /\ last.resp.wait_seconds = 30

(***************************************************************************)
(* Properties of the search tools.                                         *)
(***************************************************************************)
\* the max_results in force for the recorded call
EffectiveCap(default) ==
    IF last.args.max_results # Nothing /\ last.args.max_results[1] # 0
    THEN last.args.max_results[1] ELSE default

\* the files the recorded grep searched: the path itself when it is a file,
\* else the files below it, but for those the read check refuses
SearchedFiles ==
    {f \in (IF IsFile(files, LastPath) THEN {LastPath} ELSE Below(files, LastPath)) :
        /\ IsFile(files, f)
        /\ ~check_file_access(f, "read", FALSE, session_approvals, mode).raised}

\* the lines of a file, as the pairs of the file and a 1-indexed line number
LinesOf(f) ==
    {<<f, n>> : n \in 1..Len(readlines(universal_newlines(files[f]), <<>>))}

\* the lines of the searched files that contain the pattern
MatchingLines ==
    {l \in UNION {LinesOf(f) : f \in SearchedFiles} :
        Count(readlines(universal_newlines(files[l[1]]), <<>>)[l[2]],
              last.args.pattern) > 0}

\* C19: a grep that succeeds returns at most max_results matches; when the
\* searched files hold more matching lines than max_results the response
\* has truncated=true; when they hold at most max_results matching lines it
\* has truncated=false, total_matches is the number of matching lines and
\* the matches are exactly those lines, each with its 1-indexed line number.
C19_GrepTruncation ==
    (last.tool = "grep" /\ IsSuccess(last.resp)) =>
        /\ Len(last.resp.matches) <= EffectiveCap(grep_max_results)
        /\ Cardinality(MatchingLines) > EffectiveCap(grep_max_results)
              => last.resp.truncated = TRUE
        /\ Cardinality(MatchingLines) <= EffectiveCap(grep_max_results)
              => /\ last.resp.truncated = FALSE
                 /\ last.resp.total_matches = Cardinality(MatchingLines)
                 /\ {<<m.file, m.line_number>> :
                        m \in {last.resp.matches[i] : i \in DOMAIN last.resp.matches}}
                       = {<<Join(l[1]), l[2]>> : l \in MatchingLines}

\* the entries the recorded find has to report: those below the search path
\* and within max_depth whose name matches the filter and whose type passes
FindExpected ==
    LET pattern == IF last.args.name # Nothing /\ last.args.name[1] # <<>>
                   THEN last.args.name[1] ELSE <<"*">>
    IN {e \in Below(files, LastPath) :
           /\ \/ last.args.max_depth = Nothing
              \/ last.args.max_depth[1] = 0
              \/ Len(e) - Len(LastPath) - 1 <= last.args.max_depth[1]
           /\ pattern = <<"*">> \/ GlobMatch(pattern, Last(e))
           /\ \/ last.args.file_type = Nothing
              \/ last.args.file_type = Some("f") /\ IsFile(files, e)
              \/ last.args.file_type = Some("d") /\ e \in Dirs}

\* C20: a find with a name filter that succeeds, for every file_type value
\* (none, 'f', 'd'), has in its matches every entry within max_depth whose
\* name matches the filter and whose type passes the filter, entries nested
\* below directories whose names do not match included, unless the matches
\* have reached max_results.
C20_FindRecurses ==
    (/\ last.tool = "find"
     /\ IsSuccess(last.resp)
     /\ last.args.name \notin {Nothing, Some(<<>>)}) =>
        \/ Len(last.resp.matches) >= EffectiveCap(find_max_results)
        \/ \A e \in FindExpected :
               \E i \in DOMAIN last.resp.matches : last.resp.matches[i].path = Join(e)

\* The entry a match names is a directory, or a regular file, of the tree
MatchIsDirectory(m) == \E d \in Dirs : Join(d) = m.path
MatchIsRegularFile(m) == \E p \in DOMAIN files : IsFile(files, p) /\ Join(p) = m.path

\* C21: for every tree, name, max_depth and max_results, find with
\* file_type 'f' returns no match that is a directory, and find with
\* file_type 'd' returns no match that is a regular file.
C21_FindTypeFilter ==
    (last.tool = "find" /\ IsSuccess(last.resp)) =>
        \A i \in DOMAIN last.resp.matches :
            LET m == last.resp.matches[i]
            IN /\ last.args.file_type = Some("f") =>
                      (~MatchIsDirectory(m) /\ MatchIsRegularFile(m) /\ ~m.is_dir)
               /\ last.args.file_type = Some("d") =>
                      (~MatchIsRegularFile(m) /\ MatchIsDirectory(m) /\ ~m.is_file)

\* find for regular files of any name under /o, which holds the directory
\* /o/d, has returned a match.
C21_Witness ==
    /\ last.tool = "find"
    /\ IsSuccess(last.resp)
    /\ last.args.file_type = Some("f")
    /\ last.args.name = Nothing
    /\ last.args.path = <<c_o>>
    /\ last.resp.matches # <<>>

(***************************************************************************)
(* Properties of the command permission check.                             *)
(***************************************************************************)
ContainsBlocked(command) ==
    \E i \in DOMAIN blocked_commands : Count(command, blocked_commands[i]) > 0

FirstTokenNeedsApproval(command) ==
    \E i \in DOMAIN require_approval_commands :
        FirstWord(command) = require_approval_commands[i]

\* C22: bash spawns no process and adds no job for a command that contains
\* a blocked command or whose first token is in require_approval_commands;
\* the blocked command is denied, and the approval-required command is
\* denied with a permission_denied envelope whose retry_strategy is
\* request_approval.
C22_CommandDenied ==
    (/\ last.tool = "bash"
     /\ ContainsBlocked(last.args.command) \/ FirstTokenNeedsApproval(last.args.command))
        => /\ NoSideEffectIn(last.steps)
           /\ last.check = "denied"
           /\ HasEnvelopeShape(last.resp)
           /\ (~ContainsBlocked(last.args.command)) =>
                  /\ last.resp.error_type = "permission_denied"
                  /\ last.resp.retry_strategy = "request_approval"

(***************************************************************************)
(* Properties of kill_job.                                                 *)
(***************************************************************************)
\* C23: kill_job on an id that is not in the job table returns an error and
\* leaves the table unchanged; kill_job on an id that is in the table,
\* whether its process is running or has exited unread, returns success and
\* removes the id.
C23_KillRemoves ==
    [][last'.tool = "kill_job" =>
          IF last'.args.job_id \notin DOMAIN background_jobs
          THEN /\ HasEnvelopeShape(last'.resp)
               /\ background_jobs' = background_jobs
          ELSE /\ IsSuccess(last'.resp)
               /\ last'.args.job_id \notin DOMAIN background_jobs']_vars

(***************************************************************************)
(* Properties of delete_file.                                              *)
(***************************************************************************)
\* C24: in every mode delete_file removes a file only after
\* check_file_access(path, "delete") has allowed it; when that check denies,
\* the file still exists after the call; a path under a blocked directory is
\* never deleted; and the approvals recorded for read or write make no
\* difference to the call.
C24_DeleteChecked ==
    [][last'.tool = "delete_file" =>
          LET path == normalize_path(last'.args.path)
              perm == check_file_access(path, "delete", FALSE, session_approvals, mode)
              delete_approvals == {k \in session_approvals : k[1] = "delete"}
              alone == delete_file(last'.args.path, last'.fault, files, delete_approvals,
                                   mode)
          IN /\ files' # files =>
                    /\ ~perm.raised
                    /\ last'.check = "allowed"
                    /\ last'.steps = <<"validate", "check", "unlink">>
                    /\ files' = [files EXCEPT ![path] = NoFile]
             /\ (perm.raised /\ IsFile(files, path)) =>
                    /\ IsFile(files', path)
                    /\ files' = files
                    /\ HasEnvelopeShape(last'.resp)
                    /\ last'.resp.error_type = "permission_denied" \/
                           last'.resp.details = [exception_type |-> "TypeError"]
             /\ UnderBlocked(path) => files' = files
             /\ alone.resp = last'.resp
             /\ alone.files = files']_vars

\* delete_file on /r/f was denied although a write approval for /r/f is
\* recorded, and the file is still there.
C24_Witness ==
    /\ last.tool = "delete_file"
    /\ last.args.path = P_req
    /\ approval_key("write", P_req) \in session_approvals
    /\ last.check = "denied"
    /\ IsFile(files, P_req)

(***************************************************************************)
(* Properties of the backoff that handle_error returns.                    *)
(***************************************************************************)
\* C25: for a handle_error call on an operation id with a retryable error
\* of strategy exponential_backoff, wait_seconds is min(base ** n, cap)
\* where n is the ledger count of that operation id (the count the call
\* found, or the count it left), whatever the context holds.
C25_BackoffFollowsOperation ==
    (/\ last.tool = "handle_error"
     /\ last.resp.action = "wait"
     /\ "retry_strategy" \in DOMAIN last.args.error
     /\ last.args.error.retry_strategy = "exponential_backoff")
        => LET n == LedgerCount(last.args.operation_id)
               base == BackoffSetting("backoff_base", backoff_base_default)
               cap == BackoffSetting("backoff_max", backoff_max_default)
           IN last.resp.wait_seconds \in {Min(Pow(base, n), cap), Min(Pow(base, n - 1), cap)}

(***************************************************************************)
(* Properties of two edit_file calls on one path.                          *)
(***************************************************************************)
Succeeded(id) == id \in DOMAIN calls /\ calls[id].pc = "done" /\ IsSuccess(calls[id].resp)

\* C26: two edit_file calls on the same path that run one after the other
\* and both succeed leave a content that reflects both edits: the later
\* call read what the earlier one wrote.  (That interleaved calls can both
\* succeed and leave only one of the edits is C26_Witness.)
C26_SequentialEditsCompose ==
    \A i, j \in CallIds :
        (/\ Succeeded(i) /\ Succeeded(j)
         /\ calls[i].path = calls[j].path
         /\ calls[i].order < calls[j].order
         /\ ~calls[i].overlapped /\ ~calls[j].overlapped)
            => /\ calls[j].content = calls[i].new_content
               /\ files[calls[j].path] = calls[j].new_content
               /\ files[calls[j].path] =
                      Replace(Replace(Original, calls[i].old_string, calls[i].new_string, 1),
                              calls[j].old_string, calls[j].new_string, 1)

\* Two interleaved edit_file calls with different edits have both returned
\* success, and the file holds the original with only one of the edits.
C26_Witness ==
    \E i, j \in CallIds :
        /\ Succeeded(i) /\ Succeeded(j)
        /\ calls[i].overlapped /\ calls[j].overlapped
        /\ calls[i].old_string # calls[j].old_string
        /\ files[P_safe] = Replace(Original, calls[i].old_string, calls[i].new_string, 1)
        /\ Count(files[P_safe], calls[j].new_string) = 0

(***************************************************************************)
(* Properties of the retry ledger's entries.                               *)
(***************************************************************************)
\* C27: reset_retry_count(A) removes exactly A's entry, after which
\* get_retry_count(A) is 0 and, recovery being enabled, should_retry is
\* true for every retryable error on A; resetting an id with no entry
\* changes nothing; handle_error(_, A, _) changes at most A's entry; and
\* neither changes the count of another operation id.
C27_LedgerIsolation ==
    [][LET A == last'.args.operation_id
       IN /\ last'.tool = "reset_retry_count" =>
                 /\ DOMAIN retry_counts' = DOMAIN retry_counts \ {A}
                 /\ \A id \in DOMAIN retry_counts' : retry_counts'[id] = retry_counts[id]
                 /\ get_retry_count(A, retry_counts') = 0
                 /\ recovery_enabled =>
                        \A e \in ErrorInputs :
                            Retryable(e) => should_retry(e, A, recovery_enabled, retry_counts')
                 /\ A \notin DOMAIN retry_counts => retry_counts' = retry_counts
          /\ last'.tool = "handle_error" =>
                 /\ DOMAIN retry_counts \subseteq DOMAIN retry_counts'
                 /\ DOMAIN retry_counts' \subseteq DOMAIN retry_counts \cup {A}
                 /\ \A id \in DOMAIN retry_counts \ {A} :
                        retry_counts'[id] = retry_counts[id]]_vars

\* op1 has just been reset while op2 stands at the retry ceiling.
C27_Witness ==
    /\ last.tool = "reset_retry_count"
    /\ last.args.operation_id = "op1"
    /\ "op1" \notin DOMAIN retry_counts
    /\ "op2" \in DOMAIN retry_counts
    /\ retry_counts["op2"] = max_retries
    /\ recovery_enabled

(***************************************************************************)
(* Properties of the backup file over successive calls.                    *)
(***************************************************************************)
\* C28: a successful write_file (backups enabled) or edit_file on an
\* existing path P leaves in P.backup the content P had immediately before
\* the call, and a failed write_file or edit_file changes neither P nor
\* P.backup.
C28_BackupHistory ==
    [][(/\ last'.tool \in {"write_file", "edit_file"}
        /\ normalize_path(last'.args.path) \in DOMAIN files) =>
          LET P == normalize_path(last'.args.path)
              bk == BackupPath(P, backup_suffix)
          IN /\ (/\ IsSuccess(last'.resp)
                 /\ files[P] # NoFile
                 /\ last'.tool = "write_file" => ShouldBackup(last'.args.create_backup))
                    => files'[bk] = files[P]
             /\ ~IsSuccess(last'.resp) =>
                    /\ files'[P] = files[P]
                    /\ files'[bk] = files[bk]]_vars

(***************************************************************************)
(* Properties of interleaved get_job_status and kill_job calls.            *)
(***************************************************************************)
\* the calls for the job that found it completed when they started
OnCompleted(job_id) ==
    {id \in DOMAIN calls : calls[id].job_id = job_id /\ calls[id].completed}

\* C29: of the interleaved get_job_status and kill_job calls for one
\* completed job, at most one returns the completed result, every other
\* call that has returned holds an error envelope (or, for kill_job, its
\* success), and once two such calls, one of them a get_job_status, have
\* both returned, the job id is absent from the table.
C29_ReadOnceInterleaved ==
    \A job_id \in JobIds :
        LET cs == OnCompleted(job_id)
            returned == {id \in cs : calls[id].pc = "done"}
            got == {id \in returned : IsCompletedStatus(calls[id].resp)}
        IN /\ Cardinality(got) <= 1
           /\ \A id \in got : calls[id].tool = "get_job_status"
           /\ \A id \in returned \ got :
                  \/ HasEnvelopeShape(calls[id].resp)
                  \/ calls[id].tool = "kill_job" /\ IsSuccess(calls[id].resp)
           /\ (/\ cs = CallIds
               /\ returned = cs
               /\ \E id \in cs : calls[id].tool = "get_job_status")
                  => job_id \notin DOMAIN background_jobs

\* Two get_job_status calls for the completed job were both suspended at
\* communicate(); one has returned the completed result and the other the
\* envelope of the KeyError, and the job is gone.
C29_Witness ==
    /\ DOMAIN calls = CallIds
    /\ \A id \in CallIds :
           /\ calls[id].tool = "get_job_status"
           /\ calls[id].pc = "done"
           /\ calls[id].completed
           /\ calls[id].overlapped
    /\ \E id \in CallIds : IsCompletedStatus(calls[id].resp)
    /\ \E id \in CallIds :
           /\ HasEnvelopeShape(calls[id].resp)
           /\ calls[id].resp.details = [exception_type |-> "KeyError"]
    /\ 1 \notin DOMAIN background_jobs

(***************************************************************************)
(* Properties of the agent's observe phase.                                *)
(***************************************************************************)
\* the _observe calls that handed a failure of the action to handle_error
FailuresOf(action) ==
    {i \in DOMAIN calls : /\ calls[i].operation_id # None
                          /\ calls[i].action_result.action = action}

\* the failures that were answered with a recovery other than fail
Recovered(action) ==
    {i \in FailuresOf(action) : /\ ~calls[i].raised
                                /\ calls[i].out.recovery.action # "fail"}

\* C30: _observe hands the failures of one action to handle_error under
\* one operation id, and once max_retries failures of the action have been
\* answered with a recovery, its next failure is answered with action=fail.
C30_ObserveCeiling ==
    \A j \in DOMAIN calls :
        calls[j].operation_id # None =>
            LET action == calls[j].action_result.action
                before == {i \in Recovered(action) : i < j}
            IN /\ \A i \in FailuresOf(action) :
                      calls[i].operation_id = calls[j].operation_id
               /\ Cardinality(before) >= max_retries =>
                      /\ ~calls[j].raised
                      /\ calls[j].out.recovery.action = "fail"

====
